---------------------------- MODULE Spec2Model ----------------------------
(***************************************************************************)
(* The exam classification engine of the Resident RVU Dashboard            *)
(* (src/app.py): modality, body part and exam name of a record, derived    *)
(* from its EXAMCODE and its EXAM DESC by ordered regular-expression       *)
(* tables.                                                                 *)
(*                                                                         *)
(* Text is a TLA+ string.  Regular expressions are kept in the tables by   *)
(* their source text, as in the program, and are interpreted by a small    *)
(* matcher (Regex, Matches, ReSearch, ReMatch) that implements the         *)
(* constructs the program's patterns use: literals, \b, \s+, \s*, .*,      *)
(* alternation and negative lookahead.                                     *)
(***************************************************************************)
EXTENDS Naturals, Sequences, FiniteSets, TLC

-----------------------------------------------------------------------------
(* Characters and strings *)

UpperLetters ==
    {"A","B","C","D","E","F","G","H","I","J","K","L","M",
     "N","O","P","Q","R","S","T","U","V","W","X","Y","Z"}

LowerLetters ==
    {"a","b","c","d","e","f","g","h","i","j","k","l","m",
     "n","o","p","q","r","s","t","u","v","w","x","y","z"}

Digits == {"0","1","2","3","4","5","6","7","8","9"}

\* The characters \w matches, which decide where \b holds.
WordChars == UpperLetters \cup LowerLetters \cup Digits \cup {"_"}

\* The characters \s matches, among those the modelled texts are made of.
Whitespace == {" "}

CharAt(t, i) == SubSeq(t, i, i)

\* t has the literal w at position i.
At(t, i, w) ==
    /\ i >= 1
    /\ i + Len(w) - 1 <= Len(t)
    /\ SubSeq(t, i, i + Len(w) - 1) = w

IsWordAt(t, i) == i >= 1 /\ i <= Len(t) /\ CharAt(t, i) \in WordChars

IsSpaceAt(t, i) == i >= 1 /\ i <= Len(t) /\ CharAt(t, i) \in Whitespace

\* \b holds between positions i-1 and i.
Boundary(t, i) == IsWordAt(t, i - 1) # IsWordAt(t, i)

\* Python's `w in t`.
Contains(t, w) == \E i \in 1..(Len(t) + 1 - Len(w)) : At(t, i, w)

StartsWith(t, w) == At(t, 1, w)

UpperChar(c) ==
    CASE c = "a" -> "A" [] c = "b" -> "B" [] c = "c" -> "C" [] c = "d" -> "D"
      [] c = "e" -> "E" [] c = "f" -> "F" [] c = "g" -> "G" [] c = "h" -> "H"
      [] c = "i" -> "I" [] c = "j" -> "J" [] c = "k" -> "K" [] c = "l" -> "L"
      [] c = "m" -> "M" [] c = "n" -> "N" [] c = "o" -> "O" [] c = "p" -> "P"
      [] c = "q" -> "Q" [] c = "r" -> "R" [] c = "s" -> "S" [] c = "t" -> "T"
      [] c = "u" -> "U" [] c = "v" -> "V" [] c = "w" -> "W" [] c = "x" -> "X"
      [] c = "y" -> "Y" [] c = "z" -> "Z" [] OTHER -> c

RECURSIVE UpperFrom(_, _)
UpperFrom(t, i) ==
    IF i > Len(t) THEN "" ELSE UpperChar(CharAt(t, i)) \o UpperFrom(t, i + 1)

\* str.upper()
Upper(t) == UpperFrom(t, 1)

RECURSIVE FirstNonSpace(_, _)
FirstNonSpace(t, i) ==
    IF i > Len(t) \/ ~IsSpaceAt(t, i) THEN i ELSE FirstNonSpace(t, i + 1)

RECURSIVE LastNonSpace(_, _)
LastNonSpace(t, i) ==
    IF i < 1 \/ ~IsSpaceAt(t, i) THEN i ELSE LastNonSpace(t, i - 1)

\* str.strip()
Strip(t) == SubSeq(t, FirstNonSpace(t, 1), LastNonSpace(t, Len(t)))

RECURSIVE CollapseFrom(_, _)
CollapseFrom(t, i) ==
    IF i > Len(t) THEN ""
    ELSE IF IsSpaceAt(t, i)
         THEN " " \o CollapseFrom(t, FirstNonSpace(t, i))
         ELSE CharAt(t, i) \o CollapseFrom(t, i + 1)

\* re.sub(r"\s+", " ", t)
CollapseSpaces(t) == CollapseFrom(t, 1)

-----------------------------------------------------------------------------
(* Regular expressions.  A pattern is a sequence of alternatives; an       *)
(* alternative is a sequence of elements.                                  *)

Lit(w) == <<"lit", w>>          \* the literal text w
WB == <<"b">>                   \* \b
SP1 == <<"s+">>                 \* \s+
SP0 == <<"s*">>                 \* \s*
ANY == <<".*">>                 \* .*  (the modelled texts hold no newline)
Alt(alts) == <<"alt", alts>>    \* (?:a|b|...)
NotAhead(seq) == <<"not", seq>> \* (?!seq)

\* a|b|c over plain literals
AnyOf(ws) == [k \in 1..Len(ws) |-> <<Lit(ws[k])>>]

\* \ba|b|c\b : the \b binds to the first and to the last alternative only
EdgeB(ws) ==
    [k \in 1..Len(ws) |->
        (IF k = 1 THEN <<WB>> ELSE <<>>) \o <<Lit(ws[k])>>
            \o (IF k = Len(ws) THEN <<WB>> ELSE <<>>)]

\* The elements e match t from position pos on (backtracking search).
RECURSIVE Matches(_, _, _)
Matches(t, e, pos) ==
    IF e = <<>> THEN TRUE
    ELSE LET h == Head(e)
             r == Tail(e)
         IN  CASE h[1] = "lit" -> At(t, pos, h[2]) /\ Matches(t, r, pos + Len(h[2]))
               [] h[1] = "b"   -> Boundary(t, pos) /\ Matches(t, r, pos)
               [] h[1] = "s+"  -> IsSpaceAt(t, pos)
                                  /\ (Matches(t, e, pos + 1) \/ Matches(t, r, pos + 1))
               [] h[1] = "s*"  -> \/ (IsSpaceAt(t, pos) /\ Matches(t, e, pos + 1))
                                  \/ Matches(t, r, pos)
               [] h[1] = ".*"  -> \E q \in pos..(Len(t) + 1) : Matches(t, r, q)
               [] h[1] = "alt" -> \E k \in 1..Len(h[2]) : Matches(t, h[2][k] \o r, pos)
               [] h[1] = "not" -> ~Matches(t, h[2], pos) /\ Matches(t, r, pos)

\* re.search(pattern, t) with the pattern given as alternatives
SearchRe(re, t) ==
    \E k \in 1..Len(re) : \E p \in 1..(Len(t) + 1) : Matches(t, re[k], p)

\* re.match(pattern, t): anchored at the start of t
MatchRe(re, t) == \E k \in 1..Len(re) : Matches(t, re[k], 1)

\* a.*b.*c over plain literals
Chain(ws) ==
    [k \in 1..(2 * Len(ws) - 1) |->
        IF k % 2 = 1 THEN Lit(ws[(k + 1) \div 2]) ELSE ANY]

\* a\s+b\s+c over plain literals
Spaced(ws) ==
    [k \in 1..(2 * Len(ws) - 1) |->
        IF k % 2 = 1 THEN Lit(ws[(k + 1) \div 2]) ELSE SP1]

\* \b(?:a|b|...)\b
WordOf(alts) == <<WB, Alt(alts), WB>>

\* The patterns of MODALITY_PATTERNS and BODY_PART_CODE_PATTERNS, by source text.
CodeRegex ==
       ("^XR" :> <<<<Lit("XR")>>>>)
    @@ ("^AX" :> <<<<Lit("AX")>>>>)
    @@ ("^RT" :> <<<<Lit("RT")>>>>)
    @@ ("^CT(?!.*ANG)" :> <<<<Lit("CT"), NotAhead(<<ANY, Lit("ANG")>>)>>>>)
    @@ ("^CT.*ANG" :> <<Chain(<<"CT", "ANG">>)>>)
    @@ ("^MR(?!.*(?:MRA|MRV))" :>
            <<<<Lit("MR"), NotAhead(<<ANY, Alt(AnyOf(<<"MRA", "MRV">>))>>)>>>>)
    @@ ("^MR.*MRA" :> <<Chain(<<"MR", "MRA">>)>>)
    @@ ("^MR.*MRV" :> <<Chain(<<"MR", "MRV">>)>>)
    @@ ("^FL" :> <<<<Lit("FL")>>>>)
    @@ ("^NM" :> <<<<Lit("NM")>>>>)
    @@ ("^Z.*PET.*CT" :> <<Chain(<<"Z", "PET", "CT">>)>>)
    @@ ("^Z.*PET" :> <<Chain(<<"Z", "PET">>)>>)
    @@ ("^Z" :> <<<<Lit("Z")>>>>)
    @@ ("^CT.*CH.*AB.*PE" :> <<Chain(<<"CT", "CH", "AB", "PE">>)>>)
    @@ ("^CT.*AB.*PE" :> <<Chain(<<"CT", "AB", "PE">>)>>)
    @@ ("^CT.*CH" :> <<Chain(<<"CT", "CH">>)>>)
    @@ ("^CT.*PE" :> <<Chain(<<"CT", "PE">>)>>)
    @@ ("^CT.*AB(?!.*PE)" :>
            <<Chain(<<"CT", "AB">>) \o <<NotAhead(<<ANY, Lit("PE")>>)>>>>)
    @@ ("^MR.*KN" :> <<Chain(<<"MR", "KN">>)>>)
    @@ ("^MR.*SH" :> <<Chain(<<"MR", "SH">>)>>)
    @@ ("^MR.*HI" :> <<Chain(<<"MR", "HI">>)>>)
    @@ ("^XR.*CH|^AX.*CH" :> <<Chain(<<"XR", "CH">>), Chain(<<"AX", "CH">>)>>)
    @@ ("^XR.*AB|^AX.*AB" :> <<Chain(<<"XR", "AB">>), Chain(<<"AX", "AB">>)>>)
    @@ ("^RT.*CH" :> <<Chain(<<"RT", "CH">>)>>)
    @@ ("^RT.*(?:HI|HA)" :> <<<<Lit("RT"), ANY, Alt(AnyOf(<<"HI", "HA">>))>>>>)
    @@ ("^RT.*SH" :> <<Chain(<<"RT", "SH">>)>>)
    @@ ("^RT.*EL" :> <<Chain(<<"RT", "EL">>)>>)
    @@ ("^RT.*KN" :> <<Chain(<<"RT", "KN">>)>>)
    @@ ("^RT.*(?:FO|AN)" :> <<<<Lit("RT"), ANY, Alt(AnyOf(<<"FO", "AN">>))>>>>)
    @@ ("^RT.*FE" :> <<Chain(<<"RT", "FE">>)>>)
    @@ ("^RT.*TI" :> <<Chain(<<"RT", "TI">>)>>)
    @@ ("^RT.*PE" :> <<Chain(<<"RT", "PE">>)>>)
    @@ ("^RT.*CL" :> <<Chain(<<"RT", "CL">>)>>)
    @@ ("^RT.*LS" :> <<Chain(<<"RT", "LS">>)>>)
    @@ ("^NM.*HIDA|^NM.*HEPATOBILIARY" :>
            <<Chain(<<"NM", "HIDA">>), Chain(<<"NM", "HEPATOBILIARY">>)>>)
    @@ ("^NM.*(?:KID|RENAL|MAG3)" :>
            <<<<Lit("NM"), ANY, Alt(AnyOf(<<"KID", "RENAL", "MAG3">>))>>>>)
    @@ ("^NM.*(?:LUNG|VEN|PERF)" :>
            <<<<Lit("NM"), ANY, Alt(AnyOf(<<"LUNG", "VEN", "PERF">>))>>>>)
    @@ ("^NM.*(?:BONE|BJTOT)" :>
            <<<<Lit("NM"), ANY, Alt(AnyOf(<<"BONE", "BJTOT">>))>>>>)
    @@ ("^NM.*(?:GES|GASTRIC)" :>
            <<<<Lit("NM"), ANY, Alt(AnyOf(<<"GES", "GASTRIC">>))>>>>)

\* The keyword patterns that are more than one plain literal:
\* NM_KEYWORDS, the invasive patterns and the Z code body part patterns.
KeywordRegex ==
       ("BONE\\s+SCAN" :> <<Spaced(<<"BONE", "SCAN">>)>>)
    @@ ("RENAL\\s+SCAN" :> <<Spaced(<<"RENAL", "SCAN">>)>>)
    @@ ("GASTRIC\\s+EMPTYING" :> <<Spaced(<<"GASTRIC", "EMPTYING">>)>>)
    @@ ("LIVER\\s+AND\\s+SPLEEN" :> <<Spaced(<<"LIVER", "AND", "SPLEEN">>)>>)
    @@ ("3\\s+PHASE" :> <<Spaced(<<"3", "PHASE">>)>>)
    @@ ("WHOLE\\s+BODY" :> <<Spaced(<<"WHOLE", "BODY">>)>>)
    @@ ("STENT\\s+PLACEMENT" :> <<Spaced(<<"STENT", "PLACEMENT">>)>>)
    @@ ("BONE\\s+SCAN|3\\s+PHASE\\s+BONE" :>
            <<Spaced(<<"BONE", "SCAN">>), Spaced(<<"3", "PHASE", "BONE">>)>>)
    @@ ("HIDA|HEPATOBILIARY" :> AnyOf(<<"HIDA", "HEPATOBILIARY">>))
    @@ ("RENAL|MAG3" :> AnyOf(<<"RENAL", "MAG3">>))

\* The patterns of BODY_PART_PATTERNS.
BodyPartRegex ==
       ("\\bHEAD|NECK|BRAIN|SKULL|ORBITS|FACIAL|SINUS|TEMPORAL|PITUITARY|CRANIAL|SKULL BASE\\b" :>
            EdgeB(<<"HEAD", "NECK", "BRAIN", "SKULL", "ORBITS", "FACIAL", "SINUS",
                    "TEMPORAL", "PITUITARY", "CRANIAL", "SKULL BASE">>))
    @@ ("\\bCHEST|LUNG|THORAX\\b" :> EdgeB(<<"CHEST", "LUNG", "THORAX">>))
    @@ ("\\bABDOMEN|ABDOMINAL\\b" :> EdgeB(<<"ABDOMEN", "ABDOMINAL">>))
    @@ ("\\bPELVIS\\b|\\bPELVIC\\b" :>
            <<<<WB, Lit("PELVIS"), WB>>, <<WB, Lit("PELVIC"), WB>>>>)
    @@ ("\\bSPINE|LUMBOSACRAL|L SPINE|T SPINE|C SPINE|CERVICAL|THORACIC|LUMBAR|SACRUM|COCCYX\\b" :>
            EdgeB(<<"SPINE", "LUMBOSACRAL", "L SPINE", "T SPINE", "C SPINE",
                    "CERVICAL", "THORACIC", "LUMBAR", "SACRUM", "COCCYX">>))
    @@ ("\\bSHOULDER|ELBOW|WRIST|HAND|FINGER|HUMERUS|FOREARM|CLAVICLE|ARM\\b" :>
            EdgeB(<<"SHOULDER", "ELBOW", "WRIST", "HAND", "FINGER", "HUMERUS",
                    "FOREARM", "CLAVICLE", "ARM">>))
    @@ ("\\bHIP|KNEE|ANKLE|FOOT|TOE|FEMUR|TIBIA|FIBULA|THIGH|LEG\\b" :>
            EdgeB(<<"HIP", "KNEE", "ANKLE", "FOOT", "TOE", "FEMUR", "TIBIA",
                    "FIBULA", "THIGH", "LEG">>))
    @@ ("\\bBREAST|MAMMO\\b" :> EdgeB(<<"BREAST", "MAMMO">>))
    @@ ("\\bRENAL|KIDNEY\\b" :> EdgeB(<<"RENAL", "KIDNEY">>))
    @@ ("\\bCARDIAC|HEART|ECHO\\b" :> EdgeB(<<"CARDIAC", "HEART", "ECHO">>))
    @@ ("\\bCAROTID|ARTERIAL|VENOUS|VEIN|ARTERY\\b" :>
            EdgeB(<<"CAROTID", "ARTERIAL", "VENOUS", "VEIN", "ARTERY">>))
    @@ ("\\bLIVER|HEPATOBILIARY|HEPATIC|HIDA\\b" :>
            EdgeB(<<"LIVER", "HEPATOBILIARY", "HEPATIC", "HIDA">>))
    @@ ("\\bSPLEEN\\b" :> EdgeB(<<"SPLEEN">>))
    @@ ("\\bSTOMACH|GASTRIC|ESOPHAGUS|SWALLOW\\b" :>
            EdgeB(<<"STOMACH", "GASTRIC", "ESOPHAGUS", "SWALLOW">>))
    @@ ("\\bWHOLE BODY|BONE SCAN|TUMOR IMAGING|SKULL BASE.*MID THIGH|SKULL BASE.*THIGH\\b" :>
            << <<WB, Lit("WHOLE BODY")>>,
               <<Lit("BONE SCAN")>>,
               <<Lit("TUMOR IMAGING")>>,
               <<Lit("SKULL BASE"), ANY, Lit("MID THIGH")>>,
               <<Lit("SKULL BASE"), ANY, Lit("THIGH"), WB>> >>)

\* The patterns of DESC_MODALITY_PATTERNS.
DescModalityRegex ==
       ("\\bPET\\s*/\\s*CT|PET\\s+CT" :>
            << <<WB, Lit("PET"), SP0, Lit("/"), SP0, Lit("CT")>>,
               <<Lit("PET"), SP1, Lit("CT")>> >>)
    @@ ("\\bPET\\b|POSITRON" :> << <<WB, Lit("PET"), WB>>, <<Lit("POSITRON")>> >>)
    @@ ("\\bMRA\\b|ANGIOGRAPHY|ANGIOGRAM" :>
            << <<WB, Lit("MRA"), WB>>, <<Lit("ANGIOGRAPHY")>>, <<Lit("ANGIOGRAM")>> >>)
    @@ ("\\bMRV\\b|VENOGRAPHY|VENOGRAM" :>
            << <<WB, Lit("MRV"), WB>>, <<Lit("VENOGRAPHY")>>, <<Lit("VENOGRAM")>> >>)
    @@ ("\\bMRI\\b|MR\\s+" :> << <<WB, Lit("MRI"), WB>>, <<Lit("MR"), SP1>> >>)
    @@ ("\\bCTA\\b|CT\\s+ANGIOGRAPHY|CT\\s+ANGIOGRAM" :>
            << <<WB, Lit("CTA"), WB>>,
               Spaced(<<"CT", "ANGIOGRAPHY">>),
               Spaced(<<"CT", "ANGIOGRAM">>) >>)
    @@ ("\\bCTV\\b|CT\\s+VENOGRAPHY|CT\\s+VENOGRAM" :>
            << <<WB, Lit("CTV"), WB>>,
               Spaced(<<"CT", "VENOGRAPHY">>),
               Spaced(<<"CT", "VENOGRAM">>) >>)
    @@ ("\\bCT\\b" :> << <<WB, Lit("CT"), WB>> >>)
    @@ ("\\bNM\\s+|NUCLEAR\\s+MEDICINE" :>
            << <<WB, Lit("NM"), SP1>>, Spaced(<<"NUCLEAR", "MEDICINE">>) >>)
    @@ ("\\bUS\\s+|ULTRASOUND" :> << <<WB, Lit("US"), SP1>>, <<Lit("ULTRASOUND")>> >>)
    @@ ("\\bXR\\s+|X-RAY" :> << <<WB, Lit("XR"), SP1>>, <<Lit("X-RAY")>> >>)
    @@ ("\\bFL\\s+|FLUORO" :> << <<WB, Lit("FL"), SP1>>, <<Lit("FLUORO")>> >>)
    @@ ("\\bMAMMO|BREAST" :> << <<WB, Lit("MAMMO")>>, <<Lit("BREAST")>> >>)
    @@ ("\\bECHO\\b" :> << <<WB, Lit("ECHO"), WB>> >>)

\* (?:CT|MRI|MR\s+|US\s+|ULTRASOUND|XR\s+|X-RAY), the modalities the
\* nuclear medicine heuristics of modality_from_desc exclude
OtherModalityAlts ==
    << <<Lit("CT")>>, <<Lit("MRI")>>, <<Lit("MR"), SP1>>, <<Lit("US"), SP1>>,
       <<Lit("ULTRASOUND")>>, <<Lit("XR"), SP1>>, <<Lit("X-RAY")>> >>

\* The patterns written inline in modality_from_desc.
DescHeuristicRegex ==
       ("\\b(?:CT|MRI|MR\\s+|US\\s+|ULTRASOUND|XR\\s+|X-RAY)\\s+SCAN" :>
            << <<WB, Alt(OtherModalityAlts), SP1, Lit("SCAN")>> >>)
    @@ ("INJECTION|RADIOACTIVE|RADIONUCLIDE" :>
            AnyOf(<<"INJECTION", "RADIOACTIVE", "RADIONUCLIDE">>))
    @@ ("SCAN|PROCEDURE|STUDY|IMAGING" :>
            AnyOf(<<"SCAN", "PROCEDURE", "STUDY", "IMAGING">>))
    @@ ("\\b(?:CT|MRI|MR\\s+|US\\s+|ULTRASOUND|XR\\s+|X-RAY|BIOPSY|ASPIRATION|DRAINAGE)\\b" :>
            << WordOf(OtherModalityAlts
                      \o AnyOf(<<"BIOPSY", "ASPIRATION", "DRAINAGE">>)) >>)
    @@ ("PROCEDURE|SCAN|INJECTION|STUDY|IMAGING|RADIOACTIVE" :>
            AnyOf(<<"PROCEDURE", "SCAN", "INJECTION", "STUDY", "IMAGING", "RADIOACTIVE">>))
    @@ ("\\b(?:CT|MRI|MR\\s+|US\\s+|ULTRASOUND|XR\\s+|X-RAY|BIOPSY|ASPIRATION|DRAINAGE|CATHETER|STENT)\\b" :>
            << WordOf(OtherModalityAlts
                      \o AnyOf(<<"BIOPSY", "ASPIRATION", "DRAINAGE", "CATHETER", "STENT">>)) >>)
    @@ ("\\b(?:CHEST|ABDOMEN|KNEE|HAND|FOOT|SHOULDER|ELBOW|ANKLE|WRIST|HIP|FEMUR|TIBIA|HUMERUS|FINGER|TOE|SPINE|PELVIS|CLAVICLE|RIBS|SINUS|TEMPORAL|FACIAL|ORBITS|SKULL|SACRUM|COCCYX)\\b" :>
            << WordOf(AnyOf(<<"CHEST", "ABDOMEN", "KNEE", "HAND", "FOOT", "SHOULDER",
                              "ELBOW", "ANKLE", "WRIST", "HIP", "FEMUR", "TIBIA",
                              "HUMERUS", "FINGER", "TOE", "SPINE", "PELVIS", "CLAVICLE",
                              "RIBS", "SINUS", "TEMPORAL", "FACIAL", "ORBITS", "SKULL",
                              "SACRUM", "COCCYX">>)) >>)

\* The patterns of contrast_phrase.
ContrastRegex ==
       ("WITH( AND)? WITHOUT|W/.*AND.*W/O" :>
            << <<Lit("WITH"), Alt(<< <<Lit(" AND")>>, <<>> >>), Lit(" WITHOUT")>>,
               Chain(<<"W/", "AND", "W/O">>) >>)
    @@ ("\\bWITHOUT\\b|\\bW/O\\b" :>
            << <<WB, Lit("WITHOUT"), WB>>, <<WB, Lit("W/O"), WB>> >>)
    @@ ("\\bWITH\\b|\\bW/\\b" :>
            << <<WB, Lit("WITH"), WB>>, <<WB, Lit("W/"), WB>> >>)

ChestAlt == Alt(AnyOf(<<"CHEST", "CH">>))
AbdomenAlt == Alt(AnyOf(<<"ABDOMEN", "AB">>))
PelvisAlt == Alt(AnyOf(<<"PELVIS", "PE">>))
AbdominalAlt == Alt(AnyOf(<<"ABDOMEN", "ABDOMINAL", "AB">>))
PelvicAlt == Alt(AnyOf(<<"PELVIS", "PELVIC", "PE">>))

\* The patterns written inline in body_parts_from_desc.
DescBodyPartRegex ==
       ("\\b(?:CHEST|CH)\\b.*\\b(?:ABDOMEN|AB)\\b.*\\b(?:PELVIS|PE)\\b" :>
            << <<WB, ChestAlt, WB, ANY, WB, AbdomenAlt, WB, ANY, WB, PelvisAlt, WB>> >>)
    @@ ("\\b(?:ABDOMEN|AB)\\b.*\\b(?:PELVIS|PE)\\b.*\\b(?:CHEST|CH)\\b" :>
            << <<WB, AbdomenAlt, WB, ANY, WB, PelvisAlt, WB, ANY, WB, ChestAlt, WB>> >>)
    @@ ("\\b(?:PELVIS|PE)\\b.*\\b(?:CHEST|CH)\\b.*\\b(?:ABDOMEN|AB)\\b" :>
            << <<WB, PelvisAlt, WB, ANY, WB, ChestAlt, WB, ANY, WB, AbdomenAlt, WB>> >>)
    @@ ("\\b(?:ABDOMEN|ABDOMINAL|AB)\\b.*\\b(?:PELVIS|PELVIC|PE)\\b" :>
            << <<WB, AbdominalAlt, WB, ANY, WB, PelvicAlt, WB>> >>)
    @@ ("\\b(?:PELVIS|PELVIC|PE)\\b.*\\b(?:ABDOMEN|ABDOMINAL|AB)\\b" :>
            << <<WB, PelvicAlt, WB, ANY, WB, AbdominalAlt, WB>> >>)
    @@ ("\\bRENAL|KIDNEY|MAG3\\b" :> EdgeB(<<"RENAL", "KIDNEY", "MAG3">>))
    @@ ("\\bLUNG|VENT|PERF\\b" :> EdgeB(<<"LUNG", "VENT", "PERF">>))
    @@ ("\\bBONE SCAN|3 PHASE BONE\\b" :> EdgeB(<<"BONE SCAN", "3 PHASE BONE">>))
    @@ ("\\bHEPATOBILIARY|HIDA|LIVER|SPLEEN\\b" :>
            EdgeB(<<"HEPATOBILIARY", "HIDA", "LIVER", "SPLEEN">>))
    @@ ("\\bGASTRIC EMPTYING|STOMACH\\b" :> EdgeB(<<"GASTRIC EMPTYING", "STOMACH">>))
    @@ ("\\bBARIUM SWALLOW|ESOPHAGUS\\b" :> EdgeB(<<"BARIUM SWALLOW", "ESOPHAGUS">>))
    @@ ("SKULL.*THIGH|SKULL.*MID" :>
            <<Chain(<<"SKULL", "THIGH">>), Chain(<<"SKULL", "MID">>)>>)
    @@ ("\\bSCAN\\b" :> << <<WB, Lit("SCAN"), WB>> >>)

\* re.compile: every pattern of the program by its source text; a source
\* without metacharacters is the literal itself.
Compiled ==
    CodeRegex @@ KeywordRegex @@ BodyPartRegex @@ DescModalityRegex
        @@ DescHeuristicRegex @@ ContrastRegex @@ DescBodyPartRegex

Regex(src) == IF src \in DOMAIN Compiled THEN Compiled[src] ELSE <<<<Lit(src)>>>>

\* re.search(src, t)
ReSearch(src, t) == SearchRe(Regex(src), t)

\* re.match(src, t)
ReMatch(src, t) == MatchRe(Regex(src), t)

-----------------------------------------------------------------------------
(* The program's state: the module-level pattern tables (mutable Python    *)
(* objects, read by every classification call) and the record being        *)
(* processed.                                                              *)

VARIABLES
    MODALITY_PATTERNS,        \* dict: code pattern -> modality, in insertion order
    BODY_PART_CODE_PATTERNS,  \* dict: code pattern -> body part
    BODY_PART_PATTERNS,       \* dict: body part -> description pattern
    DESC_MODALITY_PATTERNS,   \* list of (description pattern, modality)
    NM_KEYWORDS,              \* list of patterns
    HEAD_NECK_KEYWORDS        \* list of patterns

tables ==
    <<MODALITY_PATTERNS, BODY_PART_CODE_PATTERNS, BODY_PART_PATTERNS,
      DESC_MODALITY_PATTERNS, NM_KEYWORDS, HEAD_NECK_KEYWORDS>>

InitModalityPatterns ==
    << <<"^XR", "Radiography">>,
       <<"^AX", "Radiography">>,
       <<"^RT", "Radiography">>,
       <<"^CT(?!.*ANG)", "CT">>,
       <<"^CT.*ANG", "CTA">>,
       <<"^MR(?!.*(?:MRA|MRV))", "MRI">>,
       <<"^MR.*MRA", "MRA">>,
       <<"^MR.*MRV", "MRV">>,
       <<"^FL", "Fluoroscopy">>,
       <<"^NM", "Nuclear Medicine">>,
       <<"^Z.*PET.*CT", "PET/CT">>,
       <<"^Z.*PET", "PET">>,
       <<"^Z", "Nuclear Medicine">> >>

InitNmKeywords ==
    <<"BONE\\s+SCAN", "HIDA", "NUCLEAR", "RENAL\\s+SCAN", "MAG3",
      "GASTRIC\\s+EMPTYING", "LIVER\\s+AND\\s+SPLEEN", "HEPATOBILIARY",
      "THYROID", "PARATHYROID", "SCAN", "INJECTION", "RADIOACTIVE",
      "TECHNETIUM", "I-131", "I-123", "GALLIUM", "INDIUM",
      "OCTREOTIDE", "MUGA", "MYOCARDIAL", "PERFUSION", "VENTILATION",
      "DMSA", "DTPA", "LASIX", "3\\s+PHASE", "WHOLE\\s+BODY", "SALIVARY">>

InitHeadNeckKeywords ==
    <<"HEAD", "NECK", "THYROID", "PARATHYROID", "SALIVARY", "SALIVA">>

InitBodyPartCodePatterns ==
    << <<"^CT.*CH.*AB.*PE", "Chest, Abdomen, Pelvis">>,
       <<"^CT.*AB.*PE", "Abdomen, Pelvis">>,
       <<"^CT.*CH", "Chest">>,
       <<"^CT.*PE", "Pelvis">>,
       <<"^CT.*AB(?!.*PE)", "Abdomen">>,
       <<"^CT.*ANG", "Vascular">>,
       <<"^MR.*KN", "Lower Extremity">>,
       <<"^MR.*SH", "Upper Extremity">>,
       <<"^MR.*HI", "Head/Neck">>,
       <<"^XR.*CH|^AX.*CH", "Chest">>,
       <<"^XR.*AB|^AX.*AB", "Abdomen">>,
       <<"^RT.*CH", "Chest">>,
       <<"^RT.*(?:HI|HA)", "Upper Extremity">>,
       <<"^RT.*SH", "Upper Extremity">>,
       <<"^RT.*EL", "Upper Extremity">>,
       <<"^RT.*KN", "Lower Extremity">>,
       <<"^RT.*(?:FO|AN)", "Lower Extremity">>,
       <<"^RT.*FE", "Lower Extremity">>,
       <<"^RT.*TI", "Lower Extremity">>,
       <<"^RT.*PE", "Pelvis">>,
       <<"^RT.*CL", "Upper Extremity">>,
       <<"^RT.*LS", "Spine">>,
       <<"^NM.*HIDA|^NM.*HEPATOBILIARY", "Liver">>,
       <<"^NM.*(?:KID|RENAL|MAG3)", "Renal">>,
       <<"^NM.*(?:LUNG|VEN|PERF)", "Chest">>,
       <<"^NM.*(?:BONE|BJTOT)", "Whole Body">>,
       <<"^NM.*(?:GES|GASTRIC)", "Stomach">> >>

InitBodyPartPatterns ==
    << <<"Head/Neck", "\\bHEAD|NECK|BRAIN|SKULL|ORBITS|FACIAL|SINUS|TEMPORAL|PITUITARY|CRANIAL|SKULL BASE\\b">>,
       <<"Chest", "\\bCHEST|LUNG|THORAX\\b">>,
       <<"Abdomen", "\\bABDOMEN|ABDOMINAL\\b">>,
       <<"Pelvis", "\\bPELVIS\\b|\\bPELVIC\\b">>,
       <<"Spine", "\\bSPINE|LUMBOSACRAL|L SPINE|T SPINE|C SPINE|CERVICAL|THORACIC|LUMBAR|SACRUM|COCCYX\\b">>,
       <<"Upper Extremity", "\\bSHOULDER|ELBOW|WRIST|HAND|FINGER|HUMERUS|FOREARM|CLAVICLE|ARM\\b">>,
       <<"Lower Extremity", "\\bHIP|KNEE|ANKLE|FOOT|TOE|FEMUR|TIBIA|FIBULA|THIGH|LEG\\b">>,
       <<"Breast", "\\bBREAST|MAMMO\\b">>,
       <<"Renal", "\\bRENAL|KIDNEY\\b">>,
       <<"Cardiac", "\\bCARDIAC|HEART|ECHO\\b">>,
       <<"Vascular", "\\bCAROTID|ARTERIAL|VENOUS|VEIN|ARTERY\\b">>,
       <<"Liver", "\\bLIVER|HEPATOBILIARY|HEPATIC|HIDA\\b">>,
       <<"Spleen", "\\bSPLEEN\\b">>,
       <<"Stomach", "\\bSTOMACH|GASTRIC|ESOPHAGUS|SWALLOW\\b">>,
       <<"Whole Body", "\\bWHOLE BODY|BONE SCAN|TUMOR IMAGING|SKULL BASE.*MID THIGH|SKULL BASE.*THIGH\\b">> >>

InitDescModalityPatterns ==
    << <<"\\bPET\\s*/\\s*CT|PET\\s+CT", "PET/CT">>,
       <<"\\bPET\\b|POSITRON", "PET">>,
       <<"\\bMRA\\b|ANGIOGRAPHY|ANGIOGRAM", "MRA">>,
       <<"\\bMRV\\b|VENOGRAPHY|VENOGRAM", "MRV">>,
       <<"\\bMRI\\b|MR\\s+", "MRI">>,
       <<"\\bCTA\\b|CT\\s+ANGIOGRAPHY|CT\\s+ANGIOGRAM", "CTA">>,
       <<"\\bCTV\\b|CT\\s+VENOGRAPHY|CT\\s+VENOGRAM", "CTV">>,
       <<"\\bCT\\b", "CT">>,
       <<"\\bNM\\s+|NUCLEAR\\s+MEDICINE", "Nuclear Medicine">>,
       <<"\\bUS\\s+|ULTRASOUND", "US">>,
       <<"\\bXR\\s+|X-RAY", "Radiography">>,
       <<"\\bFL\\s+|FLUORO", "Fluoroscopy">>,
       <<"\\bMAMMO|BREAST", "Mammography">>,
       <<"\\bECHO\\b", "Echocardiography">> >>

-----------------------------------------------------------------------------
(* Values of a cell of the input table *)

\* A missing cell (NaN) and a text cell.
NaN == [na |-> TRUE, s |-> ""]
Text(s) == [na |-> FALSE, s |-> s]

\* pd.isna(x)
isna(x) == x.na

\* str(x): a missing cell prints as "nan"
str(x) == IF x.na THEN "nan" ELSE x.s

\* The index of the first entry of an ordered table whose pattern (at place
\* col of the entry) matches t from its start, from entry k on; 0 if none.
RECURSIVE FirstMatch(_, _, _, _)
FirstMatch(table, col, t, k) ==
    IF k > Len(table) THEN 0
    ELSE IF ReMatch(table[k][col], t) THEN k
    ELSE FirstMatch(table, col, t, k + 1)

\* The same with re.search.
RECURSIVE FirstSearch(_, _, _, _)
FirstSearch(table, col, t, k) ==
    IF k > Len(table) THEN 0
    ELSE IF ReSearch(table[k][col], t) THEN k
    ELSE FirstSearch(table, col, t, k + 1)

\* Every keyword required in place of any.
AllSearch(keywords, t) == \A k \in 1..Len(keywords) : ReSearch(keywords[k], t)

\* any(re.search(keyword, t) for keyword in keywords)
AnySearch(keywords, t) == \E k \in 1..Len(keywords) : ReSearch(keywords[k], t)

\* any(x in t for x in words)
AnyIn(words, t) == \E k \in 1..Len(words) : Contains(t, words[k])

-----------------------------------------------------------------------------
(* Classification from the description *)

\* The regions of a CT description with the pair of abdomen and pelvis
\* tested before the chest.
region_ct_pair_first(t) ==
    LET has(w) == Contains(t, w)
    IN  IF has("ABDOMEN") /\ has("PELVIS") THEN "Abdomen/Pelvis"
        ELSE IF has("CHEST") /\ (has("ABDOMEN") \/ has("PELVIS")) THEN "Chest/Abdomen/Pelvis"
        ELSE IF has("CHEST") THEN "Chest"
        ELSE IF has("ABDOMEN") THEN "Abdomen"
        ELSE IF has("PELVIS") THEN "Pelvis"
        ELSE "Other"

region_ct(t) ==
    LET has(w) == Contains(t, w)
    IN  IF has("CHEST") /\ (has("ABDOMEN") \/ has("PELVIS")) THEN "Chest/Abdomen/Pelvis"
        ELSE IF has("ABDOMEN") /\ has("PELVIS") THEN "Abdomen/Pelvis"
        ELSE IF has("CHEST") THEN "Chest"
        ELSE IF has("ABDOMEN") THEN "Abdomen"
        ELSE IF has("PELVIS") THEN "Pelvis"
        ELSE "Other"

contrast_phrase(t) ==
    IF ReSearch("WITH( AND)? WITHOUT|W/.*AND.*W/O", t) THEN "w/ and w/o Contrast"
    ELSE IF ReSearch("\\bWITHOUT\\b|\\bW/O\\b", t) THEN "w/o Contrast"
    ELSE IF ReSearch("\\bWITH\\b|\\bW/\\b", t) THEN "w/ Contrast"
    ELSE ""

invasive_patterns ==
    <<"BIOPSY", "ASPIRATION", "DRAINAGE", "CATHETERIZATION", "STENT\\s+PLACEMENT">>

\* No indicator of nuclear medicine at all.
no_indicators == <<>>

nm_indicators == <<"SCAN", "INJECTION", "RADIOACTIVE", "RADIONUCLIDE", "NUCLEAR">>

\* The pattern loop returning the pattern of the matching entry in place
\* of its modality.
RECURSIVE desc_pattern_source(_, _)
desc_pattern_source(t, k) ==
    IF k > Len(DESC_MODALITY_PATTERNS) THEN ""
    ELSE IF ReSearch(DESC_MODALITY_PATTERNS[k][1], t) THEN DESC_MODALITY_PATTERNS[k][1]
    ELSE desc_pattern_source(t, k + 1)

\* The pattern loop returning the modality of the last matching entry in
\* place of the first.
RECURSIVE desc_pattern_last(_, _)
desc_pattern_last(t, k) ==
    IF k > Len(DESC_MODALITY_PATTERNS) THEN ""
    ELSE IF desc_pattern_last(t, k + 1) # "" THEN desc_pattern_last(t, k + 1)
    ELSE IF ReSearch(DESC_MODALITY_PATTERNS[k][1], t) THEN DESC_MODALITY_PATTERNS[k][2]
    ELSE ""

\* The modality of the first entry of DESC_MODALITY_PATTERNS that t matches,
\* from entry k on; "" if there is none.
RECURSIVE desc_pattern_modality(_, _)
desc_pattern_modality(t, k) ==
    IF k > Len(DESC_MODALITY_PATTERNS) THEN ""
    ELSE IF ReSearch(DESC_MODALITY_PATTERNS[k][1], t) THEN DESC_MODALITY_PATTERNS[k][2]
    ELSE desc_pattern_modality(t, k + 1)

\* modality_from_desc after the pattern loop found nothing: the nuclear
\* medicine heuristics, the X-ray fallback and the invasive procedures.
desc_heuristic_modality(t) ==
    IF /\ AnySearch(NM_KEYWORDS, t)
       /\ ~ReSearch("\\b(?:CT|MRI|MR\\s+|US\\s+|ULTRASOUND|XR\\s+|X-RAY)\\s+SCAN", t)
    THEN "Nuclear Medicine"
    ELSE IF /\ ReSearch("INJECTION|RADIOACTIVE|RADIONUCLIDE", t)
            /\ ReSearch("SCAN|PROCEDURE|STUDY|IMAGING", t)
            /\ ~ReSearch("\\b(?:CT|MRI|MR\\s+|US\\s+|ULTRASOUND|XR\\s+|X-RAY|BIOPSY|ASPIRATION|DRAINAGE)\\b", t)
         THEN "Nuclear Medicine"
    ELSE IF /\ AnySearch(HEAD_NECK_KEYWORDS, t)
            /\ ReSearch("PROCEDURE|SCAN|INJECTION|STUDY|IMAGING|RADIOACTIVE", t)
            /\ ~ReSearch("\\b(?:CT|MRI|MR\\s+|US\\s+|ULTRASOUND|XR\\s+|X-RAY|BIOPSY|ASPIRATION|DRAINAGE|CATHETER|STENT)\\b", t)
         THEN "Nuclear Medicine"
    ELSE IF ReSearch("\\b(?:CHEST|ABDOMEN|KNEE|HAND|FOOT|SHOULDER|ELBOW|ANKLE|WRIST|HIP|FEMUR|TIBIA|HUMERUS|FINGER|TOE|SPINE|PELVIS|CLAVICLE|RIBS|SINUS|TEMPORAL|FACIAL|ORBITS|SKULL|SACRUM|COCCYX)\\b", t)
         THEN "Radiography"
    ELSE IF AnySearch(invasive_patterns, t) /\ ~AnySearch(nm_indicators, t)
         THEN "Invasive"
    ELSE "Other"

\* The names of body parts that stand for an X-ray (lines 388-389).
PlainBodyPart ==
    "\\b(?:CHEST|ABDOMEN|KNEE|HAND|FOOT|SHOULDER|ELBOW|ANKLE|WRIST|HIP|FEMUR|TIBIA|HUMERUS|FINGER|TOE|SPINE|PELVIS|CLAVICLE|RIBS|SINUS|TEMPORAL|FACIAL|ORBITS|SKULL|SACRUM|COCCYX)\\b"

\* modality_from_desc with the names of body parts read before the
\* keywords of fluoroscopy, mammography and echocardiography.
body_part_before_fluoroscopy(t, pattern_modality) ==
    IF /\ pattern_modality \in {"Fluoroscopy", "Mammography", "Echocardiography"}
       /\ ReSearch(PlainBodyPart, t)
    THEN "Radiography"
    ELSE IF pattern_modality # "" THEN pattern_modality
    ELSE desc_heuristic_modality(t)

\* modality_from_desc on t = s.upper()
modality_from_upper(t, pattern_modality) ==
    IF pattern_modality # "" THEN pattern_modality ELSE desc_heuristic_modality(t)

modality_from_desc(s) ==
    modality_from_upper(Upper(s), desc_pattern_modality(Upper(s), 1))

Range(f) == {f[i] : i \in DOMAIN f}

\* A deduplication that puts every label before those collected earlier.
RECURSIVE DedupReversed(_, _)
DedupReversed(found, out) ==
    IF found = <<>> THEN out
    ELSE DedupReversed(Tail(found),
               IF Head(found) \in Range(out) THEN out ELSE <<Head(found)>> \o out)

\* The order-preserving deduplication that ends body_parts_from_desc.
RECURSIVE Dedup(_, _)
Dedup(found, out) ==
    IF found = <<>> THEN out
    ELSE Dedup(Tail(found),
               IF Head(found) \in Range(out) THEN out ELSE Append(out, Head(found)))

\* ", ".join(out)
RECURSIVE Join(_)
Join(out) ==
    IF out = <<>> THEN ""
    ELSE IF Len(out) = 1 THEN out[1]
    ELSE out[1] \o ", " \o Join(Tail(out))

\* found = [name for name, pat in BODY_PART_PATTERNS.items() if re.search(pat, t)]
RECURSIVE FoundParts(_, _)
FoundParts(t, k) ==
    IF k > Len(BODY_PART_PATTERNS) THEN <<>>
    ELSE (IF ReSearch(BODY_PART_PATTERNS[k][2], t)
          THEN <<BODY_PART_PATTERNS[k][1]>> ELSE <<>>) \o FoundParts(t, k + 1)

\* The inference for nuclear medicine exams, applied when no pattern matched.
NmParts(t) ==
    IF ReSearch("\\bRENAL|KIDNEY|MAG3\\b", t) THEN <<"Renal">>
    ELSE IF ReSearch("\\bLUNG|VENT|PERF\\b", t) THEN <<"Chest">>
    ELSE IF ReSearch("\\bBONE SCAN|3 PHASE BONE\\b", t) THEN <<"Whole Body">>
    ELSE IF ReSearch("\\bHEPATOBILIARY|HIDA|LIVER|SPLEEN\\b", t)
         THEN IF Contains(t, "SPLEEN") THEN <<"Liver", "Spleen">> ELSE <<"Liver">>
    ELSE IF ReSearch("\\bGASTRIC EMPTYING|STOMACH\\b", t) THEN <<"Stomach">>
    ELSE IF ReSearch("\\bBARIUM SWALLOW|ESOPHAGUS\\b", t) THEN <<"Stomach">>
    ELSE <<>>

\* The "fallback for CT scans" on the single regions region_ct reports.
CtFallback(region, found) ==
    IF region = "Chest"
    THEN IF found = <<>> \/ "Chest" \notin Range(found) THEN <<"Chest">> ELSE found
    ELSE IF region = "Abdomen"
    THEN IF ~\E f \in Range(found) : Contains(f, "Pelvis") \/ Contains(f, "Abdomen, Pelvis")
         THEN <<"Abdomen">> ELSE found
    ELSE IF region = "Pelvis"
    THEN IF ~\E f \in Range(found) : Contains(f, "Abdomen") \/ Contains(f, "Abdomen, Pelvis")
         THEN <<"Pelvis">> ELSE found
    ELSE found

\* The last fallback on common terms, applied when nothing was found.
CommonTerms(t) ==
    IF Contains(t, "CHEST") THEN <<"Chest">>
    ELSE IF ReSearch("\\bSCAN\\b", t) /\ (Contains(t, "WHOLE") \/ Contains(t, "BODY"))
         THEN <<"Whole Body">>
    ELSE IF Contains(t, "PORTACATH") \/ Contains(t, "ACCESS") THEN <<"Vascular">>
    ELSE <<>>

\* Whether the description names chest, abdomen and pelvis (lines 458-460).
ThreeRegions(t) ==
    \/ ReSearch("\\b(?:CHEST|CH)\\b.*\\b(?:ABDOMEN|AB)\\b.*\\b(?:PELVIS|PE)\\b", t)
    \/ ReSearch("\\b(?:ABDOMEN|AB)\\b.*\\b(?:PELVIS|PE)\\b.*\\b(?:CHEST|CH)\\b", t)
    \/ ReSearch("\\b(?:PELVIS|PE)\\b.*\\b(?:CHEST|CH)\\b.*\\b(?:ABDOMEN|AB)\\b", t)

\* Abdomen and pelvis recognized in this order only.
TwoRegionsInOrder(t) ==
    ReSearch("\\b(?:ABDOMEN|ABDOMINAL|AB)\\b.*\\b(?:PELVIS|PELVIC|PE)\\b", t)

\* Whether the description names abdomen and pelvis (lines 463-464).
TwoRegions(t) ==
    \/ ReSearch("\\b(?:ABDOMEN|ABDOMINAL|AB)\\b.*\\b(?:PELVIS|PELVIC|PE)\\b", t)
    \/ ReSearch("\\b(?:PELVIS|PELVIC|PE)\\b.*\\b(?:ABDOMEN|ABDOMINAL|AB)\\b", t)

\* The end of body_parts_from_desc: deduplicate and join.
joined_parts(out) == IF out # <<>> THEN Join(out) ELSE "Unknown"

\* body_parts_from_desc from the last fallback on.
parts_after_ct(t, found) ==
    joined_parts(Dedup(IF found = <<>> THEN CommonTerms(t) ELSE found, <<>>))

\* body_parts_from_desc from the "fallback for CT scans" on.
parts_after_range(t, ct, region, found) ==
    IF ct /\ region = "Chest/Abdomen/Pelvis" THEN "Chest, Abdomen, Pelvis"
    ELSE IF ct /\ region = "Abdomen/Pelvis" THEN "Abdomen, Pelvis"
    ELSE parts_after_ct(t, IF ct THEN CtFallback(region, found) ELSE found)

\* body_parts_from_desc from the check of PET ranges on.
parts_after_nm(t, ct, region, found) ==
    parts_after_range(t, ct, region,
        IF ReSearch("SKULL.*THIGH|SKULL.*MID", t) /\ found = <<>>
        THEN <<"Whole Body">> ELSE found)

\* body_parts_from_desc from the nuclear medicine inference on.
parts_after_patterns(t, ct, region, found) ==
    parts_after_nm(t, ct, region, IF found = <<>> THEN NmParts(t) ELSE found)

\* body_parts_from_desc on t = s.upper(), with ct = ("CT" in t) and
\* region = region_ct(t)
body_parts_from_upper(t, ct, region) ==
    IF ct /\ region = "Chest/Abdomen/Pelvis" THEN "Chest, Abdomen, Pelvis"
    ELSE IF ct /\ region = "Abdomen/Pelvis" THEN "Abdomen, Pelvis"
    ELSE IF ThreeRegions(t) THEN "Chest, Abdomen, Pelvis"
    ELSE IF TwoRegions(t) THEN "Abdomen, Pelvis"
    ELSE parts_after_patterns(t, ct, region, FoundParts(t, 1))

body_parts_from_desc(s) ==
    body_parts_from_upper(Upper(s), Contains(Upper(s), "CT"), region_ct(Upper(s)))

\* The contrast wording kept for every study, whatever its kind.
contrast_for_every_study(modality, exam_desc) == TRUE

is_angiography_or_venogram(modality, exam_desc) ==
    \/ modality \in {"CTA", "MRA", "MRV", "CTV"}
    \/ AnyIn(<<"ANGIOGRAPHY", "ANGIOGRAM", "VENOGRAPHY", "VENOGRAM",
               "ARTERIOGRAPHY", "ARTERIOGRAM">>, Upper(exam_desc))

\* " {con}" if con else ""
ContrastSuffix(con) == IF con # "" THEN " " \o con ELSE ""

\* The name exam_from_desc composes from the modality and the body parts
\* of the normalised text t of the description s.
exam_name_from_desc(mod, parts, s, t) ==
    IF mod = "Radiography"
    THEN "Radiography " \o (IF parts = "Unknown" THEN "Other" ELSE parts)
    ELSE mod \o " " \o (IF parts = "Unknown" THEN "Other" ELSE parts)
         \o ContrastSuffix(IF is_angiography_or_venogram(mod, s)
                           THEN contrast_phrase(t) ELSE "")

\* exam_from_desc on t = re.sub(r"\s+", " ", s.upper()).strip()
exam_from_text(s, t) ==
    exam_name_from_desc(modality_from_desc(t), body_parts_from_desc(t), s, t)

exam_from_desc(s) == exam_from_text(s, Strip(CollapseSpaces(Upper(s))))

-----------------------------------------------------------------------------
(* Classification from the exam code *)

\* A handling of Z codes that classifies by the description what neither
\* check of the description recognizes as nuclear medicine.
z_code_modality_by_description(modality, code, exam_desc, desc_upper) ==
    IF modality = "Nuclear Medicine" /\ StartsWith(code, "Z") /\ exam_desc # ""
    THEN IF /\ AnySearch(NM_KEYWORDS, desc_upper)
            /\ ~AnyIn(<<"CT SCAN", "MRI SCAN", "MR SCAN", "US SCAN",
                        "ULTRASOUND SCAN">>, desc_upper)
         THEN "Nuclear Medicine"
         ELSE modality_from_desc(exam_desc)
    ELSE modality

\* The special handling of Z codes in modality_from_examcode: the matched
\* modality, whatever the description holds.
z_code_modality(modality, code, exam_desc, desc_upper) ==
    IF modality = "Nuclear Medicine" /\ StartsWith(code, "Z") /\ exam_desc # ""
    THEN IF /\ AnySearch(NM_KEYWORDS, desc_upper)
            /\ ~AnyIn(<<"CT SCAN", "MRI SCAN", "MR SCAN", "US SCAN",
                        "ULTRASOUND SCAN">>, desc_upper)
         THEN "Nuclear Medicine"
         ELSE IF /\ AnySearch(HEAD_NECK_KEYWORDS, desc_upper)
                 /\ AnyIn(<<"PROCEDURE", "SCAN", "INJECTION", "STUDY",
                            "IMAGING", "RADIOACTIVE">>, desc_upper)
                 /\ ~AnyIn(<<"CT", "MRI", "MR ", "US ", "ULTRASOUND", "XR ",
                             "X-RAY", "BIOPSY", "ASPIRATION", "DRAINAGE",
                             "CATHETER", "STENT">>, desc_upper)
         THEN "Nuclear Medicine"
         ELSE modality
    ELSE modality

\* The pattern loop of modality_from_examcode, which entry k of
\* MODALITY_PATTERNS ends (0: none matched).
code_pattern_modality(k, code, exam_desc) ==
    IF k = 0 THEN "Other"
    ELSE z_code_modality(MODALITY_PATTERNS[k][2], code, exam_desc, Upper(exam_desc))

modality_from_examcode(examcode, exam_desc) ==
    IF isna(examcode) \/ examcode.s = "" THEN "Other"
    ELSE code_pattern_modality(
            FirstMatch(MODALITY_PATTERNS, 1, Strip(Upper(str(examcode))), 1),
            Strip(Upper(str(examcode))), exam_desc)

z_body_patterns ==
    << <<"BONE\\s+SCAN|3\\s+PHASE\\s+BONE", "Whole Body">>,
       <<"HIDA|HEPATOBILIARY", "Liver">>,
       <<"RENAL|MAG3", "Renal">>,
       <<"GASTRIC", "Stomach">> >>

\* No fallback to the description after the Z code patterns.
no_description_fallback(z, exam_desc) ==
    IF z # 0 THEN z_body_patterns[z][2] ELSE "Unknown"

\* body_part_from_examcode after the Z code patterns, of which entry z
\* matched the description (0: none): the fallback to the description.
z_code_body_part(z, exam_desc) ==
    IF z # 0 THEN z_body_patterns[z][2]
    ELSE IF exam_desc # "" THEN body_parts_from_desc(exam_desc) ELSE "Unknown"

\* body_part_from_examcode after the code pattern loop, which entry k of
\* BODY_PART_CODE_PATTERNS ends (0: none matched).
code_pattern_body_part(k, code, exam_desc, ct, region) ==
    IF k # 0
    THEN IF ct /\ region = "Chest/Abdomen/Pelvis" THEN "Chest, Abdomen, Pelvis"
         ELSE IF ct /\ region = "Abdomen/Pelvis" THEN "Abdomen, Pelvis"
         ELSE BODY_PART_CODE_PATTERNS[k][2]
    ELSE z_code_body_part(
            IF StartsWith(code, "Z") /\ exam_desc # ""
            THEN FirstSearch(z_body_patterns, 1, Upper(exam_desc), 1) ELSE 0,
            exam_desc)

\* body_part_from_examcode on a code that is present, with
\* ct = (code.startswith('CT') and exam_desc) and region = region_ct(desc)
code_body_part(code, exam_desc, ct, region) ==
    IF ct /\ region = "Chest/Abdomen/Pelvis" THEN "Chest, Abdomen, Pelvis"
    ELSE IF ct /\ region = "Abdomen/Pelvis" THEN "Abdomen, Pelvis"
    ELSE code_pattern_body_part(FirstMatch(BODY_PART_CODE_PATTERNS, 1, code, 1),
                                code, exam_desc, ct, region)

body_part_from_examcode(examcode, exam_desc) ==
    IF isna(examcode) \/ examcode.s = ""
    THEN IF exam_desc # "" THEN body_parts_from_desc(exam_desc) ELSE "Unknown"
    ELSE code_body_part(
            Strip(Upper(str(examcode))), exam_desc,
            StartsWith(Strip(Upper(str(examcode))), "CT") /\ exam_desc # "",
            region_ct(IF exam_desc # "" THEN Upper(exam_desc) ELSE ""))

\* The name exam_from_examcode composes from the modality and the body part.
exam_name_from_code(modality, body_part, exam_desc) ==
    modality \o " " \o body_part
        \o ContrastSuffix(IF is_angiography_or_venogram(modality, exam_desc)
                             /\ exam_desc # ""
                          THEN contrast_phrase(Upper(exam_desc)) ELSE "")

exam_from_examcode(examcode, exam_desc) ==
    IF isna(examcode) \/ examcode.s = ""
    THEN IF exam_desc # "" THEN exam_from_desc(exam_desc) ELSE "Other"
    ELSE exam_name_from_code(modality_from_examcode(examcode, exam_desc),
                             body_part_from_examcode(examcode, exam_desc),
                             exam_desc)

-----------------------------------------------------------------------------
(* process_dataframe: the enrichment of the rows of the uploaded table     *)

VARIABLES
    columns,        \* df_raw.columns: the column names of the input table
    df_raw,         \* the rows of the input table, by normalized column name
    has_examcode,   \* "EXAMCODE" in df.columns
    df,             \* the rows enriched so far, in the order of df_raw
    pc,             \* where process_dataframe is: "start", "enrich",
                    \* "raised" or "returned"
    error           \* the columns the ValueError names, <<>> if none is raised

\* The dashboard: the loaded table and the filters of the sidebar.
VARIABLES
    processed_df,       \* st.session_state.processed_df: the loaded table
    date_range,         \* the value of the date input: no, one or two dates
    time_filter,        \* the hours selected in the multiselect
    modality_filter,    \* the modalities selected
    body_part_filter,   \* the body parts selected
    day_filter,         \* the days of the week selected
    session_state,      \* the selections kept in st.session_state
    df_filtered,        \* the filtered table
    stopped             \* st.stop() was called for an empty filtered table

\* combine_excel_files: the data directory and what the function reported.
VARIABLES
    data_dir,           \* the sheets of the files of the directory, by name
    message             \* the last report of the function

frame == <<columns, df_raw, has_examcode, df, pc, error>>

filters ==
    <<processed_df, date_range, time_filter, modality_filter, body_part_filter,
      day_filter, session_state, df_filtered, stopped>>

disk == <<data_dir, message>>

vars == <<tables, frame, filters, disk>>

\* A row of the input table.
Row(examcode, exam_desc) == ("EXAMCODE" :> examcode) @@ ("EXAM DESC" :> exam_desc)

\* pd.notna(x)
notna(x) == ~isna(x)

\* The rows of a table that has the EXAMCODE column all classified by the
\* code classifier, those without a code too.
EnrichRowByColumn(row) ==
    LET examcode == row["EXAMCODE"]
        exam_desc == str(row["EXAM DESC"])
    IN  row
        @@ ("Modality" :> IF has_examcode THEN modality_from_examcode(examcode, exam_desc)
                          ELSE modality_from_desc(exam_desc))
        @@ ("Exam" :> IF has_examcode THEN exam_from_examcode(examcode, exam_desc)
                      ELSE exam_from_desc(exam_desc))
        @@ ("Body Part" :> IF has_examcode THEN body_part_from_examcode(examcode, exam_desc)
                           ELSE body_parts_from_desc(exam_desc))

\* The three lambdas of process_dataframe applied to one row: the code
\* classifier for a row that has a code, the description classifier
\* otherwise and for a table without the EXAMCODE column.
EnrichRow(row) ==
    LET examcode == row["EXAMCODE"]
        exam_desc == str(row["EXAM DESC"])
        by_code == has_examcode /\ notna(examcode)
    IN  row
        @@ ("Modality" :> IF by_code THEN modality_from_examcode(examcode, exam_desc)
                          ELSE modality_from_desc(exam_desc))
        @@ ("Exam" :> IF by_code THEN exam_from_examcode(examcode, exam_desc)
                      ELSE exam_from_desc(exam_desc))
        @@ ("Body Part" :> IF by_code THEN body_part_from_examcode(examcode, exam_desc)
                           ELSE body_parts_from_desc(exam_desc))

LowerChar(c) ==
    CASE c = "A" -> "a" [] c = "B" -> "b" [] c = "C" -> "c" [] c = "D" -> "d"
      [] c = "E" -> "e" [] c = "F" -> "f" [] c = "G" -> "g" [] c = "H" -> "h"
      [] c = "I" -> "i" [] c = "J" -> "j" [] c = "K" -> "k" [] c = "L" -> "l"
      [] c = "M" -> "m" [] c = "N" -> "n" [] c = "O" -> "o" [] c = "P" -> "p"
      [] c = "Q" -> "q" [] c = "R" -> "r" [] c = "S" -> "s" [] c = "T" -> "t"
      [] c = "U" -> "u" [] c = "V" -> "v" [] c = "W" -> "w" [] c = "X" -> "x"
      [] c = "Y" -> "y" [] c = "Z" -> "z" [] OTHER -> c

RECURSIVE LowerFrom(_, _)
LowerFrom(t, i) ==
    IF i > Len(t) THEN "" ELSE LowerChar(CharAt(t, i)) \o LowerFrom(t, i + 1)

\* str.lower()
Lower(t) == LowerFrom(t, 1)

\* cols_map[c] for k = c.strip().lower(): of the four tests the last one
\* that holds decides.
NormalizedName(c, k) ==
    IF Contains(k, "examcode") \/ Contains(k, "exam code") THEN "EXAMCODE"
    ELSE IF Contains(k, "wrvu") THEN "WRVU ESTIMATE"
    ELSE IF Contains(k, "exam") /\ Contains(k, "desc") THEN "EXAM DESC"
    ELSE IF Contains(k, "dttm") THEN "DICTATION DTTM"
    ELSE c

cols_map(c) == NormalizedName(c, Strip(Lower(c)))

\* set(df.columns) after df_raw.rename(columns=cols_map)
RenamedColumns(cols) == {cols_map(cols[i]) : i \in DOMAIN cols}

need == {"DICTATION DTTM", "EXAM DESC", "WRVU ESTIMATE"}

\* sorted(names) for names among the needed columns
sorted(names) ==
    (IF "DICTATION DTTM" \in names THEN <<"DICTATION DTTM">> ELSE <<>>)
        \o (IF "EXAM DESC" \in names THEN <<"EXAM DESC">> ELSE <<>>)
        \o (IF "WRVU ESTIMATE" \in names THEN <<"WRVU ESTIMATE">> ELSE <<>>)

\* Only the first missing column reported.
FirstMissingColumn(cols) ==
    IF need \ RenamedColumns(cols) = {} THEN <<>>
    ELSE <<sorted(need \ RenamedColumns(cols))[1]>>

\* sorted(missing), the columns the ValueError lists
MissingColumns(cols) == sorted(need \ RenamedColumns(cols))

DigitVal(c) ==
    CASE c = "0" -> 0 [] c = "1" -> 1 [] c = "2" -> 2 [] c = "3" -> 3
      [] c = "4" -> 4 [] c = "5" -> 5 [] c = "6" -> 6 [] c = "7" -> 7
      [] c = "8" -> 8 [] c = "9" -> 9

IsDigits(t) == Len(t) > 0 /\ \A i \in 1..Len(t) : CharAt(t, i) \in Digits

RECURSIVE NatOf(_)
NatOf(t) ==
    IF t = "" THEN 0
    ELSE 10 * NatOf(SubSeq(t, 1, Len(t) - 1)) + DigitVal(CharAt(t, Len(t)))

\* NaT and NaN, the results of a failed conversion
NaT == [na |-> TRUE, ymdhm |-> <<>>]
NotANumber == [na |-> TRUE, hundredths |-> 0]

DaysInMonth(y, m) ==
    IF m = 2
    THEN IF y % 4 = 0 /\ (y % 100 # 0 \/ y % 400 = 0) THEN 29 ELSE 28
    ELSE IF m \in {4, 6, 9, 11} THEN 30 ELSE 31

\* The fields of a text "YYYY-MM-DD HH:MM", the form of the timestamps of
\* the modelled tables.
StampFields(t) ==
    <<SubSeq(t, 1, 4), SubSeq(t, 6, 7), SubSeq(t, 9, 10),
      SubSeq(t, 12, 13), SubSeq(t, 15, 16)>>

IsStamp(t) ==
    /\ Len(t) = 16
    /\ CharAt(t, 5) = "-" /\ CharAt(t, 8) = "-"
    /\ CharAt(t, 11) = " " /\ CharAt(t, 14) = ":"
    /\ \A k \in 1..5 : IsDigits(StampFields(t)[k])
    /\ NatOf(StampFields(t)[2]) \in 1..12
    /\ NatOf(StampFields(t)[3]) \in
            1..DaysInMonth(NatOf(StampFields(t)[1]), NatOf(StampFields(t)[2]))
    /\ NatOf(StampFields(t)[4]) \in 0..23
    /\ NatOf(StampFields(t)[5]) \in 0..59

\* pd.to_datetime(x, errors="coerce") of one cell
to_datetime(x) ==
    IF isna(x) \/ ~IsStamp(x.s) THEN NaT
    ELSE [na |-> FALSE, ymdhm |-> [k \in 1..5 |-> NatOf(StampFields(x.s)[k])]]

\* The place of the decimal point of t, 0 if it has none.
PointAt(t) ==
    IF Contains(t, ".") THEN CHOOSE i \in 1..Len(t) : CharAt(t, i) = "." ELSE 0

\* pd.to_numeric(x, errors="coerce") of one cell, for the numerals of the
\* modelled tables: digits with at most two decimals
NumberOf(t, point) ==
    IF point = 0
    THEN IF IsDigits(t) THEN [na |-> FALSE, hundredths |-> 100 * NatOf(t)]
         ELSE NotANumber
    ELSE IF /\ IsDigits(SubSeq(t, 1, point - 1))
            /\ IsDigits(SubSeq(t, point + 1, Len(t)))
            /\ Len(t) - point <= 2
         THEN [na |-> FALSE,
               hundredths |-> 100 * NatOf(SubSeq(t, 1, point - 1))
                    + (IF Len(t) - point = 1 THEN 10 ELSE 1)
                        * NatOf(SubSeq(t, point + 1, Len(t)))]
         ELSE NotANumber

to_numeric(x) == IF isna(x) THEN NotANumber ELSE NumberOf(x.s, PointAt(x.s))

\* A row of df[base_cols] with its timestamp and its value converted.
Converted(row) ==
    [row EXCEPT !["DICTATION DTTM"] = to_datetime(@),
                !["WRVU ESTIMATE"] = to_numeric(@)]

\* No row dropped for a failed conversion.
RECURSIVE keep_all(_)
keep_all(rows) ==
    IF rows = <<>> THEN <<>>
    ELSE <<Converted(Head(rows))>> \o keep_all(Tail(rows))

\* df.dropna(subset=["DICTATION DTTM", "WRVU ESTIMATE"]) after the two
\* conversions: the rows whose timestamp and value both converted
RECURSIVE dropna(_)
dropna(rows) ==
    IF rows = <<>> THEN <<>>
    ELSE (IF \/ isna(Converted(Head(rows))["DICTATION DTTM"])
             \/ isna(Converted(Head(rows))["WRVU ESTIMATE"])
          THEN <<>> ELSE <<Converted(Head(rows))>>) \o dropna(Tail(rows))

\* The schema check and the conversions of process_dataframe, before the
\* enrichment: the ValueError for missing columns, or the rows to enrich.
Validate ==
    /\ pc = "start"
    /\ error' = MissingColumns(columns)
    /\ pc' = IF MissingColumns(columns) # <<>> THEN "raised"
             ELSE IF dropna(df_raw) = <<>> THEN "returned"
             ELSE "enrich"
    /\ UNCHANGED <<tables, columns, df_raw, has_examcode, df, filters, disk>>

\* A pattern table consumed by the calls that iterate over it: the first
\* entry is gone after one enrichment step.
TableConsumed(table) == IF table = <<>> THEN table ELSE Tail(table)

\* A pattern table reordered by the calls that iterate over it: the entry
\* that was first is last after one enrichment step.
TableReordered(table) ==
    IF table = <<>> THEN table ELSE Tail(table) \o <<Head(table)>>

\* A pattern table after the calls of one enrichment step: the functions
\* iterate over the tables and never assign to them.
TableAfterCalls(table) == table

\* One step of df.apply: the next of the rows kept is enriched.
Enrich ==
    /\ pc = "enrich"
    /\ Len(df) < Len(dropna(df_raw))
    /\ df' = Append(df, EnrichRow(dropna(df_raw)[Len(df) + 1]))
    /\ pc' = IF Len(df) + 1 = Len(dropna(df_raw)) THEN "returned" ELSE "enrich"
    /\ MODALITY_PATTERNS' = TableAfterCalls(MODALITY_PATTERNS)
    /\ BODY_PART_CODE_PATTERNS' = TableAfterCalls(BODY_PART_CODE_PATTERNS)
    /\ BODY_PART_PATTERNS' = TableAfterCalls(BODY_PART_PATTERNS)
    /\ DESC_MODALITY_PATTERNS' = TableAfterCalls(DESC_MODALITY_PATTERNS)
    /\ NM_KEYWORDS' = TableAfterCalls(NM_KEYWORDS)
    /\ HEAD_NECK_KEYWORDS' = TableAfterCalls(HEAD_NECK_KEYWORDS)
    /\ UNCHANGED <<columns, df_raw, has_examcode, error, filters, disk>>

-----------------------------------------------------------------------------
(* The input tables of the model *)

\* " ".join(ws)
RECURSIVE JoinWords(_)
JoinWords(ws) ==
    IF ws = <<>> THEN ""
    ELSE IF Len(ws) = 1 THEN ws[1]
    ELSE ws[1] \o " " \o JoinWords(Tail(ws))

SeqsUpTo(V, n) == UNION {[1..k -> V] : k \in 0..n}

\* Descriptions of region combinations, read without a code.
MaxRegionWords == 3
RegionRows ==
    {Row(NaN, Text(JoinWords(ws))) :
        ws \in SeqsUpTo({"CT", "CHEST", "ABDOMEN", "PELVIS"}, MaxRegionWords)}

\* Studies followed by contrast wording.
MaxContrastWords == 2
Studies ==
    { <<NaN, "CT">>, <<NaN, "CTA">>, <<NaN, "CT ARTERIOGRAM">>,
      <<NaN, "CHEST ARTERIOGRAM">>,
      <<Text("CTCH"), "ANGIOGRAM">>, <<Text("CTCH"), "CHEST">>,
      <<Text("CTANG"), "HEAD">>, <<Text("XRCH"), "ARTERIOGRAM">> }
ContrastRows ==
    {Row(st[1], Text(JoinWords(<<st[2]>> \o ws))) :
        st \in Studies,
        ws \in SeqsUpTo({"WITH", "WITHOUT", "W/", "W/O", "CONTRAST", "W/CONTRAST"},
                        MaxContrastWords)}

\* Codes of every family, with a missing, an empty and a blank code, and
\* short descriptions, with lower case and repeated blanks.
MaxWords == 2
GeneralRows ==
    {Row(c, Text(JoinWords(ws))) :
        c \in {NaN, Text(""), Text(" "), Text("CT"), Text("RTKN"), Text("ctch"),
               Text("ZPET"), Text("US1")},
        ws \in SeqsUpTo({"CT", "US", "KNEE", "BONE SCAN", "mri", ""}, MaxWords)}
        \cup {Row(NaN, NaN), Row(Text("CT"), NaN)}

\* Tables of several rows, where a row may repeat.
MaxRows == 3
RepeatedRows ==
    {Row(NaN, Text("CTA HEAD WITHOUT CONTRAST")),
     Row(Text("CTCH"), Text("CHEST WITHOUT CONTRAST")),
     Row(Text(""), Text("CT CHEST")), Row(NaN, Text(""))}

\* Descriptions that name joints of the limbs, some of them twice.
MaxLimbWords == 3
LimbRows ==
    {Row(NaN, Text(JoinWords(ws))) :
        ws \in SeqsUpTo({"SHOULDER", "AND", "ELBOW", "KNEE"}, MaxLimbWords)}

\* Descriptions that name the abdomen and the pelvis, in both orders and
\* both spellings, among other words.
MaxExtraWords == 1
AbdomenPelvis ==
    {<<a, b>> : a \in {"ABDOMEN", "ABDOMINAL"}, b \in {"PELVIS", "PELVIC"}}
        \cup {<<b, a>> : a \in {"ABDOMEN", "ABDOMINAL"}, b \in {"PELVIS", "PELVIC"}}
AbdomenPelvisRows ==
    {Row(NaN, Text(JoinWords(pre \o ap \o post))) :
        pre \in SeqsUpTo({"KNEE", "CT"}, MaxExtraWords),
        ap \in AbdomenPelvis,
        post \in {<<>>, <<"KNEE">>}}

\* Bone scans, with the words that follow them.
MaxScanWords == 1
ScanRows ==
    {Row(NaN, Text(JoinWords(<<"BONE SCAN">> \o ws))) :
        ws \in SeqsUpTo({"WHOLE BODY", "ANGIOGRAM", "LUMBAR", "AB PE"}, MaxScanWords)}

\* "".join(ws)
RECURSIVE Concat(_)
Concat(ws) == IF ws = <<>> THEN "" ELSE Head(ws) \o Concat(Tail(ws))

\* Codes of computed tomography and of magnetic resonance, put together
\* from their parts, with and without the marks of angiography.
MaxCodeParts == 2
AngiographyRows ==
    {Row(Text(Concat(ws)), Text("HEAD")) :
        ws \in SeqsUpTo({"CT", "MR", "MRA", "MRV", "ANG", "BR"}, MaxCodeParts)}

\* Codes that no entry of BODY_PART_CODE_PATTERNS matches, with
\* descriptions that name regions.
MaxFallbackWords == 2
FallbackRows ==
    {Row(Text(c), Text(JoinWords(ws))) :
        c \in {"CTXX", "Z1", "US1"},
        ws \in SeqsUpTo({"CHEST", "PELVIS", "RENAL", "KNEE"}, MaxFallbackWords)}

\* CT codes of a single region, with descriptions of up to three regions.
MaxCtWords == 3
CtRows ==
    {Row(Text(c), Text(JoinWords(ws))) :
        c \in {"CTCH", "CTPE", "ctab", "CTANG"},
        ws \in SeqsUpTo({"CHEST", "ABDOMEN", "PELVIS"}, MaxCtWords)}

\* Descriptions of CT studies that span regions, and one without CT.
SpanningRows ==
    {Row(NaN, Text(d)) :
        d \in {"CT ABDOMEN SPINE", "CT PELVIS KNEE", "CT CHEST KNEE", "ABDOMEN SPINE"}}

\* Descriptions that name generic modalities next to specific ones, and
\* the phrases of CT angiography and venography.
MaxSpecificWords == 2
SpecificRows ==
    {Row(NaN, Text(JoinWords(ws))) :
        ws \in SeqsUpTo({"CT", "CTA", "CTV", "MRI", "MRA", "PET/CT", "ANGIOGRAPHY"},
                        MaxSpecificWords)}
        \cup {Row(NaN, Text(d)) :
                d \in {"CT ANGIOGRAM CHEST", "CT VENOGRAPHY", "CT VENOGRAM",
                       "MRI MRV", "MRI VENOGRAM", "PET CT", "PET / CT",
                       "CT PET", "ct  angiography"}}

\* Descriptions that name plain body parts next to the keywords of
\* radiography, fluoroscopy, mammography and echocardiography.
MaxPlainWords == 2
PlainRows ==
    {Row(NaN, Text(JoinWords(ws))) :
        ws \in SeqsUpTo({"CHEST", "FLUORO", "FL", "BREAST", "ECHO", "XR"},
                        MaxPlainWords)}

\* Descriptions of invasive procedures, with and without the indicators
\* of nuclear medicine.
MaxInvasiveWords == 2
InvasiveRows ==
    {Row(NaN, Text(JoinWords(ws))) :
        ws \in SeqsUpTo({"BIOPSY", "STENT PLACEMENT", "SCAN", "RADIONUCLIDE",
                         "KNEE", "THYROID"}, MaxInvasiveWords)}
        \cup {Row(NaN, Text(d)) :
                d \in {"HEAD BIOPSY STUDY", "CT BIOPSY", "BIOPSY INJECTION",
                       "BIOPSY NUCLEAR", "stent  placement", "ASPIRATION",
                       "DRAINAGE", "CATHETERIZATION"}}

InputRows ==
    RegionRows \cup ContrastRows \cup GeneralRows \cup LimbRows
        \cup AbdomenPelvisRows \cup ScanRows \cup AngiographyRows
        \cup FallbackRows \cup CtRows \cup SpanningRows \cup SpecificRows
        \cup PlainRows \cup InvasiveRows

InputTables ==
    {<<r>> : r \in InputRows} \cup (SeqsUpTo(RepeatedRows, MaxRows) \ {<<>>})

\* A row with a timestamp and a value that convert.
Dictated(row) ==
    row @@ ("DICTATION DTTM" :> Text("2024-03-05 08:30"))
        @@ ("WRVU ESTIMATE" :> Text("1.25"))

DictatedTables ==
    {[k \in 1..Len(t) |-> Dictated(t[k])] : t \in InputTables}

\* The headers of the tables that hold every needed column, with and
\* without a column of codes and in another spelling.
FullHeaders ==
    { <<"DICTATION DTTM", "EXAM DESC", "WRVU ESTIMATE", "EXAMCODE">>,
      <<"DICTATION DTTM", "EXAM DESC", "WRVU ESTIMATE">>,
      <<" Dictation Dttm ", "Exam Description", "wRVU estimate", "Exam Code", "Notes">> }

\* Headers that lack needed columns.
ShortHeaders ==
    { <<"EXAM DESC", "EXAMCODE">>,
      <<"DICTATION DTTM", "WRVU ESTIMATE", "Notes">>,
      <<"Date", "Description", "RVU">> }

\* A record of the input table: the four cells by normalized column name.
Record(dttm, wrvu, examcode, exam_desc) ==
    Row(examcode, exam_desc)
        @@ ("DICTATION DTTM" :> dttm) @@ ("WRVU ESTIMATE" :> wrvu)

\* Records whose timestamp or value converts or does not, of which some
\* have no code, an empty code or no description.
BatchRecords ==
    { Record(Text("2024-03-05 08:30"), Text("1.25"), NaN, Text("CT CHEST")),
      Record(Text("2024-12-31 23:59"), Text("3"), Text(""), NaN),
      Record(Text("not a date"), Text("1.25"), Text("CTCH"), Text("CT CHEST")),
      Record(Text("2023-02-29 10:00"), Text("0.5"), NaN, Text("KNEE")),
      Record(Text("2024-03-05 08:30"), Text("n/a"), NaN, Text("KNEE")),
      Record(NaN, NaN, Text("RTKN"), Text("")) }

MaxBatchRows == 2

\* The rows of a table under a header: without a column of codes no row
\* has a code.
UnderHeader(header, rows) ==
    IF "EXAMCODE" \in RenamedColumns(header) THEN rows
    ELSE [k \in 1..Len(rows) |-> [rows[k] EXCEPT !["EXAMCODE"] = NaN]]

BatchTables ==
    {<<h, UnderHeader(h, rows)>> :
        h \in FullHeaders \cup ShortHeaders,
        rows \in SeqsUpTo(BatchRecords, MaxBatchRows) \ {<<>>}}

\* The tables of the classification cases under the plain header with a
\* column of codes, and those of the tables of several rows that have no
\* code under the header without that column.
ClassifiedTables ==
    ({<<"DICTATION DTTM", "EXAM DESC", "WRVU ESTIMATE", "EXAMCODE">>} \X DictatedTables)
        \cup {<<h, rows>> \in
                {<<"DICTATION DTTM", "EXAM DESC", "WRVU ESTIMATE">>} \X DictatedTables :
                    /\ \A k \in 1..Len(rows) : isna(rows[k]["EXAMCODE"])
                    /\ \A k \in 1..Len(rows) :
                            Row(rows[k]["EXAMCODE"], rows[k]["EXAM DESC"])
                                \in RepeatedRows}

\* No table is loaded in the dashboard.
NoDashboard ==
    /\ processed_df = <<>>
    /\ date_range = <<>>
    /\ time_filter = {}
    /\ modality_filter = {}
    /\ body_part_filter = {}
    /\ day_filter = {}
    /\ session_state = <<>>
    /\ df_filtered = <<>>
    /\ stopped = FALSE

\* No directory is read and nothing is reported.
NoDirectory ==
    /\ data_dir = <<>>
    /\ message = ""

\* The pattern tables as the module defines them.
InitTables ==
    /\ MODALITY_PATTERNS = InitModalityPatterns
    /\ BODY_PART_CODE_PATTERNS = InitBodyPartCodePatterns
    /\ BODY_PART_PATTERNS = InitBodyPartPatterns
    /\ DESC_MODALITY_PATTERNS = InitDescModalityPatterns
    /\ NM_KEYWORDS = InitNmKeywords
    /\ HEAD_NECK_KEYWORDS = InitHeadNeckKeywords

\* No table is being processed.
NoFrame ==
    /\ columns = <<>>
    /\ df_raw = <<>>
    /\ has_examcode = FALSE
    /\ df = <<>>
    /\ pc = "returned"
    /\ error = <<>>

Init ==
    /\ MODALITY_PATTERNS = InitModalityPatterns
    /\ BODY_PART_CODE_PATTERNS = InitBodyPartCodePatterns
    /\ BODY_PART_PATTERNS = InitBodyPartPatterns
    /\ DESC_MODALITY_PATTERNS = InitDescModalityPatterns
    /\ NM_KEYWORDS = InitNmKeywords
    /\ HEAD_NECK_KEYWORDS = InitHeadNeckKeywords
    /\ \E input \in ClassifiedTables \cup BatchTables :
            /\ columns = input[1]
            /\ df_raw = input[2]
    /\ has_examcode = ("EXAMCODE" \in RenamedColumns(columns))
    /\ df = <<>>
    /\ pc = "start"
    /\ error = <<>>
    /\ NoDashboard
    /\ NoDirectory

Next == Validate \/ Enrich

Spec == Init /\ [][Next]_vars

-----------------------------------------------------------------------------
(* Properties of the enriched table *)

Rows == 1..Len(df)

Code(i) == df[i]["EXAMCODE"]

\* The description of row i as the classifiers receive it.
Desc(i) == str(df[i]["EXAM DESC"])

Key(i) == <<df[i]["EXAMCODE"], df[i]["EXAM DESC"]>>

\* w occurs in t as whole words.
HasWords(t, w) ==
    \E p \in 1..(Len(t) + 1 - Len(w)) :
        At(t, p, w) /\ Boundary(t, p) /\ Boundary(t, p + Len(w))

\* w occurs in t between blanks or the ends of t.
HasToken(t, w) ==
    \E p \in 1..(Len(t) + 1 - Len(w)) :
        /\ At(t, p, w)
        /\ p = 1 \/ IsSpaceAt(t, p - 1)
        /\ p + Len(w) > Len(t) \/ IsSpaceAt(t, p + Len(w))

\* t ends with w.
EndsWith(t, w) == Len(w) <= Len(t) /\ At(t, Len(t) - Len(w) + 1, w)

\* The contrast phrase an exam name ends with.
ExamContrast(exam) ==
    IF EndsWith(exam, " w/ and w/o Contrast") THEN "w/ and w/o Contrast"
    ELSE IF EndsWith(exam, " w/o Contrast") THEN "w/o Contrast"
    ELSE IF EndsWith(exam, " w/ Contrast") THEN "w/ Contrast"
    ELSE ""

AngioKeywords ==
    <<"ANGIOGRAPHY", "ANGIOGRAM", "VENOGRAPHY", "VENOGRAM",
      "ARTERIOGRAPHY", "ARTERIOGRAM">>

\* The components of a region label "a, b, c".
RECURSIVE Components(_)
Components(label) ==
    IF Contains(label, ", ")
    THEN LET p == CHOOSE q \in 1..Len(label) :
                    At(label, q, ", ") /\ \A r \in 1..(q - 1) : ~At(label, r, ", ")
         IN  {SubSeq(label, 1, p - 1)}
                \cup Components(SubSeq(label, p + 2, Len(label)))
    ELSE {label}

\* C1: a row with a present, non-empty code carries the modality, body part
\* and exam name of the code classifier; a row whose code is absent or empty
\* carries exactly those of the description classifier.
DispatchOnCodePresence ==
    \A i \in Rows :
        IF has_examcode /\ notna(Code(i)) /\ Code(i).s # ""
        THEN /\ df[i]["Modality"] = modality_from_examcode(Code(i), Desc(i))
             /\ df[i]["Body Part"] = body_part_from_examcode(Code(i), Desc(i))
             /\ df[i]["Exam"] = exam_from_examcode(Code(i), Desc(i))
        ELSE /\ df[i]["Modality"] = modality_from_desc(Desc(i))
             /\ df[i]["Body Part"] = body_parts_from_desc(Desc(i))
             /\ df[i]["Exam"] = exam_from_desc(Desc(i))

\* C2: a description with the three words CHEST, ABDOMEN and PELVIS, in any
\* order and with or without CT, has the body part "Chest, Abdomen, Pelvis".
CombinationPriority ==
    \A i \in Rows :
        /\ isna(Code(i))
        /\ HasWords(Desc(i), "CHEST")
        /\ HasWords(Desc(i), "ABDOMEN")
        /\ HasWords(Desc(i), "PELVIS")
        => df[i]["Body Part"] = "Chest, Abdomen, Pelvis"

\* C3, as stated: a CT row whose description contains WITHOUT CONTRAST has
\* no contrast phrase in its exam name; a CTA row with such a description
\* has an exam name that ends with "w/o Contrast".
ContrastGating ==
    \A i \in Rows :
        HasWords(Desc(i), "WITHOUT CONTRAST") =>
            /\ df[i]["Modality"] = "CT" => ~Contains(df[i]["Exam"], "Contrast")
            /\ df[i]["Modality"] = "CTA" => EndsWith(df[i]["Exam"], "w/o Contrast")

\* C3, amended: a CT row whose description contains the words WITHOUT
\* CONTRAST and none of the angiography and venography keywords has no
\* contrast phrase in its exam name; a CTA row with the words WITHOUT
\* CONTRAST has an exam name that ends with "w/o Contrast".
ContrastGatingWithoutKeyword ==
    \A i \in Rows :
        HasWords(Desc(i), "WITHOUT CONTRAST") =>
            /\ df[i]["Modality"] = "CT" /\ ~AnyIn(AngioKeywords, Upper(Desc(i)))
                => ~Contains(df[i]["Exam"], "Contrast")
            /\ df[i]["Modality"] = "CTA" => EndsWith(df[i]["Exam"], "w/o Contrast")

\* C3, witness: an enriched table holds a CT study and a CTA study read
\* WITHOUT CONTRAST, the first named without and the second with the phrase.
ContrastGatingWitness ==
    \E i, j \in Rows :
        /\ HasWords(Desc(i), "WITHOUT CONTRAST")
        /\ df[i]["Modality"] = "CT"
        /\ ~AnyIn(AngioKeywords, Upper(Desc(i)))
        /\ ExamContrast(df[i]["Exam"]) = ""
        /\ HasWords(Desc(j), "WITHOUT CONTRAST")
        /\ df[j]["Modality"] = "CTA"
        /\ ExamContrast(df[j]["Exam"]) = "w/o Contrast"

\* C4: the exam name is the modality, a blank and the region, followed by
\* the contrast phrase of the description if and only if the study is an
\* angiography or venography and that phrase is not empty.
ContrastOnlyForAngiography ==
    \A i \in Rows :
        df[i]["Exam"] \in
            { df[i]["Modality"] \o " " \o region
                \o ContrastSuffix(
                      IF is_angiography_or_venogram(df[i]["Modality"], Desc(i))
                      THEN contrast_phrase(Upper(Desc(i))) ELSE "") :
              region \in {df[i]["Body Part"]}
                  \cup (IF df[i]["Body Part"] = "Unknown" THEN {"Other"} ELSE {}) }

\* C5: the exam name of a Radiography row begins with "XR" and the region.
RadiographyNamedXR ==
    \A i \in Rows :
        df[i]["Modality"] = "Radiography" => StartsWith(df[i]["Exam"], "XR ")

\* C6: no exam name contains the word "Unknown".
NoUnknownInExamName ==
    \A i \in Rows : ~Contains(df[i]["Exam"], "Unknown")

Regions ==
    {"Head/Neck", "Chest", "Abdomen", "Pelvis", "Spine", "Upper Extremity",
     "Lower Extremity", "Breast", "Renal", "Cardiac", "Vascular", "Liver",
     "Spleen", "Stomach", "Whole Body", "Unknown"}

Modalities ==
    {"CT", "CTA", "CTV", "MRI", "MRA", "MRV", "Radiography", "Fluoroscopy",
     "Nuclear Medicine", "PET", "PET/CT", "Mammography", "Echocardiography",
     "Invasive", "Other"}

\* C7, as stated: every row is enriched, its modality is one of the sixteen
\* labels, Ultrasound among them, and every component of its body part is
\* one of the sixteen regions.
ClosedLabelSets ==
    \A i \in Rows :
        /\ df[i]["Modality"] \in Modalities \cup {"Ultrasound"}
        /\ Components(df[i]["Body Part"]) \subseteq Regions

\* C7, amended: every row is enriched, its modality is one of the sixteen
\* labels with US in the place of Ultrasound, and every component of its
\* body part is one of the sixteen regions.
ClosedLabelSetsWithUS ==
    \A i \in Rows :
        /\ df[i]["Modality"] \in Modalities \cup {"US"}
        /\ Components(df[i]["Body Part"]) \subseteq Regions

\* C7, witness: an ultrasound study without a code is enriched with the
\* modality US and a region of the closed set.
ClosedLabelSetsWitness ==
    \E i \in Rows :
        /\ isna(Code(i))
        /\ HasWords(Desc(i), "US")
        /\ df[i]["Modality"] = "US"
        /\ df[i]["Body Part"] \in Regions \ {"Unknown"}

EmptyInputDefaults ==
    \A i \in Rows :
        /\ ~has_examcode \/ isna(Code(i)) \/ Code(i).s = ""
        /\ Desc(i) = ""
        => /\ df[i]["Modality"] = "Other"
           /\ df[i]["Body Part"] = "Unknown"
           /\ df[i]["Exam"] = "Other Other"

\* The contrast phrase of a text by the stated priority.
StatedContrastPhrase(t) ==
    IF \/ Contains(t, "WITH AND WITHOUT")
       \/ Contains(t, "WITH WITHOUT")
       \/ \E p, q, r \in 1..Len(t) :
            /\ At(t, p, "W/")
            /\ q >= p + 2 /\ At(t, q, "AND")
            /\ r >= q + 3 /\ At(t, r, "W/O")
    THEN "w/ and w/o Contrast"
    ELSE IF HasToken(t, "WITHOUT") \/ HasToken(t, "W/O") THEN "w/o Contrast"
    ELSE IF \/ HasToken(t, "WITH")
            \/ Contains(t, "W/ CONTRAST")
            \/ Contains(t, "W/CONTRAST")
         THEN "w/ Contrast"
    ELSE ""

\* C10: the contrast phrase shown in the exam name of an angiography or
\* venography row is the one the stated priority selects: "w/ and w/o
\* Contrast", else "w/o Contrast", else "w/ Contrast" for the word WITH or
\* the abbreviation W/ written "W/ CONTRAST" or "W/CONTRAST", else none.
ContrastPhrasePriority ==
    \A i \in Rows :
        df[i]["Modality"] \in {"CTA", "MRA", "MRV", "CTV"} =>
            ExamContrast(df[i]["Exam"]) = StatedContrastPhrase(Upper(Desc(i)))


\* The indexes of the names of the columns list.
Listed == 1..Len(error)

\* C11: once the schema check has run, the error lists a needed column
\* exactly if no column of the input table is normalized to its name; the
\* ValueError is raised exactly if the list is not empty, and then no row
\* has been or will be enriched; with the three columns present the run
\* goes on without it.
SchemaValidation ==
    /\ pc = "start" => df = <<>> /\ error = <<>>
    /\ pc # "start" =>
        /\ \A n \in need :
            (\E k \in Listed : error[k] = n)
                <=> (\A i \in DOMAIN columns : cols_map(columns[i]) # n)
        /\ \A k \in Listed, l \in Listed : error[k] = error[l] => k = l
        /\ \A k \in Listed : error[k] \in need
        /\ (pc = "raised") <=> (error # <<>>)
    /\ pc = "raised" => df = <<>>
    /\ df # <<>> => \A n \in need : \E i \in DOMAIN columns : cols_map(columns[i]) = n

\* C11, witness: the ValueError is raised for a table with records under a
\* header that has one needed column and lacks the two others, and lists
\* both.
SchemaValidationWitness ==
    /\ pc = "raised"
    /\ df_raw # <<>>
    /\ \E i \in DOMAIN columns : cols_map(columns[i]) \in need
    /\ Len(error) = 2

\* The records of the input table that row i of the returned table and
\* the rows before it can come from, in the order of the input.
Origins == {f \in [1..Len(df) -> 1..Len(df_raw)] :
                \A i \in 1..Len(df), j \in 1..Len(df) : i < j => f[i] < f[j]}

\* C12: the returned table holds, in the order of the input, exactly the
\* records whose timestamp is a date and time and whose value is a number,
\* each with its own code and description, whatever these are.
InvalidRecordDrop ==
    pc = "returned" =>
        \E f \in Origins :
            /\ \A i \in 1..Len(df) :
                /\ df[i]["EXAMCODE"] = df_raw[f[i]]["EXAMCODE"]
                /\ df[i]["EXAM DESC"] = df_raw[f[i]]["EXAM DESC"]
                /\ df[i]["DICTATION DTTM"] = to_datetime(df_raw[f[i]]["DICTATION DTTM"])
                /\ df[i]["WRVU ESTIMATE"] = to_numeric(df_raw[f[i]]["WRVU ESTIMATE"])
            /\ \A j \in 1..Len(df_raw) :
                (\E i \in 1..Len(df) : f[i] = j)
                    <=> /\ ~isna(df_raw[j]["DICTATION DTTM"])
                        /\ IsStamp(df_raw[j]["DICTATION DTTM"].s)
                        /\ ~isna(to_numeric(df_raw[j]["WRVU ESTIMATE"]))

\* C12, witness: of two records the one with a code and a description that
\* classify and a timestamp that is no date is dropped, and the one with
\* an empty code and no description is returned.
InvalidRecordDropWitness ==
    /\ pc = "returned"
    /\ Len(df_raw) = 2
    /\ Len(df) = 1
    /\ df[1]["EXAMCODE"] = Text("")
    /\ isna(df[1]["EXAM DESC"])
    /\ \E j \in 1..2 :
        /\ df_raw[j]["EXAMCODE"] = Text("CTCH")
        /\ isna(to_datetime(df_raw[j]["DICTATION DTTM"]))


\* The modality, the body part and the exam name of a record by itself,
\* from its code if it has one and from its description otherwise.
OwnLabels(examcode, exam_desc) ==
    IF notna(examcode)
    THEN <<modality_from_examcode(examcode, exam_desc),
           body_part_from_examcode(examcode, exam_desc),
           exam_from_examcode(examcode, exam_desc)>>
    ELSE <<modality_from_desc(exam_desc),
           body_parts_from_desc(exam_desc),
           exam_from_desc(exam_desc)>>

\* C13: the modality, the body part and the exam name of every enriched
\* row are those of its own code and description, whatever its place in
\* the table, whatever the other rows are, and for a row without a code
\* whether the table has a column of codes or not.
BatchIndependence ==
    \A i \in Rows :
        <<df[i]["Modality"], df[i]["Body Part"], df[i]["Exam"]>>
            = OwnLabels(Code(i), Desc(i))

\* C13, witness: a table with a column of codes is enriched in which a row
\* without a code, classified by its description, stands with a row that
\* has a code and with a row of other labels.
BatchIndependenceWitness ==
    /\ pc = "returned"
    /\ has_examcode
    /\ Len(df) = 3
    /\ \E i \in Rows : isna(Code(i)) /\ df[i]["Modality"] # "Other"
    /\ \E j \in Rows : notna(Code(j)) /\ Code(j).s # ""
    /\ \E i \in Rows, j \in Rows : df[i]["Exam"] # df[j]["Exam"]


\* The labels of a region list "a, b, c", in their order.
RECURSIVE ComponentList(_)
ComponentList(label) ==
    IF Contains(label, ", ")
    THEN <<SubSeq(label, 1,
                  (CHOOSE q \in 1..Len(label) :
                        At(label, q, ", ") /\ \A r \in 1..(q - 1) : ~At(label, r, ", ")) - 1)>>
            \o ComponentList(SubSeq(label,
                  (CHOOSE q \in 1..Len(label) :
                        At(label, q, ", ") /\ \A r \in 1..(q - 1) : ~At(label, r, ", ")) + 2,
                  Len(label)))
    ELSE <<label>>

\* The place of a region label in BODY_PART_PATTERNS, the order in which
\* body_parts_from_desc collects the labels; 0 for a label not in it.
CollectedAt(name) ==
    IF \E k \in DOMAIN BODY_PART_PATTERNS : BODY_PART_PATTERNS[k][1] = name
    THEN CHOOSE k \in DOMAIN BODY_PART_PATTERNS : BODY_PART_PATTERNS[k][1] = name
    ELSE 0

\* No label twice, and every label after those collected before it.
FirstSeenOrder(parts) ==
    \A k \in DOMAIN parts, l \in DOMAIN parts :
        k < l => /\ parts[k] # parts[l]
                 /\ CollectedAt(parts[k]) < CollectedAt(parts[l])

\* C14: the body part of a row classified by its description lists no
\* region twice, and lists the regions in the order in which they are
\* collected; "SHOULDER AND SHOULDER" and "SHOULDER AND ELBOW" give
\* exactly "Upper Extremity".
Deduplication ==
    \A i \in Rows :
        isna(Code(i)) =>
            /\ FirstSeenOrder(ComponentList(df[i]["Body Part"]))
            /\ Desc(i) \in {"SHOULDER AND SHOULDER", "SHOULDER AND ELBOW"}
                    => df[i]["Body Part"] = "Upper Extremity"

\* C14, witness: a description with two keywords of one region and a
\* keyword of another one is classified, and each region is listed once.
DeduplicationWitness ==
    \E i \in Rows :
        /\ isna(Code(i))
        /\ Desc(i) = "SHOULDER KNEE ELBOW"
        /\ df[i]["Body Part"] = "Upper Extremity, Lower Extremity"


\* C15: a description, read without a code, that has one of the words
\* ABDOMEN and ABDOMINAL and one of the words PELVIS and PELVIC, in either
\* order, and neither CHEST nor the word CH, has the body part
\* "Abdomen, Pelvis" and no other region with it.
TwoRegionOrderIndependence ==
    \A i \in Rows :
        /\ isna(Code(i))
        /\ HasWords(Upper(Desc(i)), "ABDOMEN") \/ HasWords(Upper(Desc(i)), "ABDOMINAL")
        /\ HasWords(Upper(Desc(i)), "PELVIS") \/ HasWords(Upper(Desc(i)), "PELVIC")
        /\ ~Contains(Upper(Desc(i)), "CHEST")
        /\ ~HasWords(Upper(Desc(i)), "CH")
        => df[i]["Body Part"] = "Abdomen, Pelvis"

\* C15, witness: a description with the pelvis term before the abdomen
\* term and the keyword of a third region has the body part
\* "Abdomen, Pelvis".
TwoRegionOrderIndependenceWitness ==
    \E i \in Rows :
        /\ isna(Code(i))
        /\ Desc(i) = "PELVIC ABDOMINAL KNEE"
        /\ df[i]["Body Part"] = "Abdomen, Pelvis"


\* t has a keyword of a modality: it matches an entry of
\* DESC_MODALITY_PATTERNS.
HasModalityKeyword(t) ==
    \E k \in DOMAIN DESC_MODALITY_PATTERNS : ReSearch(DESC_MODALITY_PATTERNS[k][1], t)

\* t names a region other than the whole body: it matches another entry
\* of BODY_PART_PATTERNS or has one of the short forms CH, AB and PE.
NamesOtherRegion(t) ==
    \/ \E k \in DOMAIN BODY_PART_PATTERNS :
            /\ BODY_PART_PATTERNS[k][1] # "Whole Body"
            /\ ReSearch(BODY_PART_PATTERNS[k][2], t)
    \/ HasWords(t, "CH") \/ HasWords(t, "AB") \/ HasWords(t, "PE")

PatternTablesReadOnly ==
    /\ MODALITY_PATTERNS = InitModalityPatterns
    /\ BODY_PART_CODE_PATTERNS = InitBodyPartCodePatterns
    /\ BODY_PART_PATTERNS = InitBodyPartPatterns
    /\ DESC_MODALITY_PATTERNS = InitDescModalityPatterns
    /\ NM_KEYWORDS = InitNmKeywords
    /\ HEAD_NECK_KEYWORDS = InitHeadNeckKeywords

\* C17, witness: the functions of the code classifier and those of the
\* description classifier have been called, each for a row of an enriched
\* table, and the first entries of the tables are those of their
\* definitions.
PatternTablesReadOnlyWitness ==
    /\ pc = "returned"
    /\ \E i \in Rows : notna(Code(i)) /\ Code(i).s # "" /\ Desc(i) # ""
    /\ \E i \in Rows : isna(Code(i)) /\ Desc(i) # ""
    /\ MODALITY_PATTERNS[1] = InitModalityPatterns[1]
    /\ BODY_PART_PATTERNS[1] = InitBodyPartPatterns[1]


\* The code of row i as the code classifier reads it.
UpperCode(i) == Strip(Upper(Code(i).s))

\* C18: a code that starts with CT and contains ANG has the modality CTA;
\* a code that starts with MR and contains MRA, at its start or later, has
\* the modality MRA, and one that contains MRV the modality MRV.
CodeModalitySpecificity ==
    \A i \in Rows :
        notna(Code(i)) =>
            /\ (StartsWith(UpperCode(i), "CT") /\ Contains(UpperCode(i), "ANG"))
                    => df[i]["Modality"] = "CTA"
            /\ (/\ StartsWith(UpperCode(i), "MR")
                /\ Contains(UpperCode(i), "MRA")
                /\ ~Contains(UpperCode(i), "MRV"))
                    => df[i]["Modality"] = "MRA"
            /\ (/\ StartsWith(UpperCode(i), "MR")
                /\ Contains(UpperCode(i), "MRV")
                /\ ~Contains(UpperCode(i), "MRA"))
                    => df[i]["Modality"] = "MRV"


\* Row i has a code, not empty, that no entry of BODY_PART_CODE_PATTERNS
\* matches.
UnmatchedCode(i) ==
    /\ notna(Code(i))
    /\ Code(i).s # ""
    /\ \A k \in DOMAIN BODY_PART_CODE_PATTERNS :
            ~ReMatch(BODY_PART_CODE_PATTERNS[k][1], UpperCode(i))

\* The body part of the description of row i alone.
DescriptionAlone(i) ==
    IF Desc(i) = "" THEN "Unknown" ELSE body_parts_from_desc(Desc(i))

\* C19 as stated: a row whose code no entry of BODY_PART_CODE_PATTERNS
\* matches has the body part that body_parts_from_desc gives for its
\* description alone, "Unknown" for an empty description.
RegionFallback ==
    \A i \in Rows : UnmatchedCode(i) => df[i]["Body Part"] = DescriptionAlone(i)

\* The code of row i starts with CT and its description has a combination
\* for region_ct.
CtCombination(i) ==
    /\ StartsWith(UpperCode(i), "CT")
    /\ Desc(i) # ""
    /\ region_ct(Upper(Desc(i))) \in {"Chest/Abdomen/Pelvis", "Abdomen/Pelvis"}

\* The code of row i starts with Z and its description matches entry z of
\* the Z code patterns, and no entry before it.
ZPattern(i, z) ==
    /\ StartsWith(UpperCode(i), "Z")
    /\ Desc(i) # ""
    /\ ReSearch(z_body_patterns[z][1], Upper(Desc(i)))
    /\ \A y \in 1..(z - 1) : ~ReSearch(z_body_patterns[y][1], Upper(Desc(i)))

\* C19, amended: a row whose code no entry of BODY_PART_CODE_PATTERNS
\* matches has the body part of its description alone, except that a code
\* that starts with CT has the combination region_ct finds in the
\* description, and a code that starts with Z the region of the first Z
\* code pattern the description matches.
RegionFallbackExceptCtAndZ ==
    \A i \in Rows :
        UnmatchedCode(i) =>
            /\ CtCombination(i) =>
                    df[i]["Body Part"] =
                        (IF region_ct(Upper(Desc(i))) = "Chest/Abdomen/Pelvis"
                         THEN "Chest, Abdomen, Pelvis" ELSE "Abdomen, Pelvis")
            /\ \A z \in DOMAIN z_body_patterns :
                    ZPattern(i, z) => df[i]["Body Part"] = z_body_patterns[z][2]
            /\ (~CtCombination(i) /\ \A z \in DOMAIN z_body_patterns : ~ZPattern(i, z))
                    => df[i]["Body Part"] = DescriptionAlone(i)

\* C19, witness: a code that no entry matches and that starts neither with
\* CT nor with Z has the body part of its description.
RegionFallbackWitness ==
    \E i \in Rows :
        /\ UnmatchedCode(i)
        /\ UpperCode(i) = "US1"
        /\ Desc(i) = "KNEE RENAL"
        /\ df[i]["Body Part"] = "Lower Extremity, Renal"


\* C20: a row with a code that starts with CT and a description that is
\* not empty has the body part "Chest, Abdomen, Pelvis" if the description
\* contains CHEST, ABDOMEN and PELVIS, and "Abdomen, Pelvis" if it
\* contains ABDOMEN and PELVIS and not CHEST, whatever entry of
\* BODY_PART_CODE_PATTERNS the code matches.
CtCombinationFirst ==
    \A i \in Rows :
        (notna(Code(i)) /\ StartsWith(UpperCode(i), "CT") /\ Desc(i) # "") =>
            /\ (/\ Contains(Upper(Desc(i)), "CHEST")
                /\ Contains(Upper(Desc(i)), "ABDOMEN")
                /\ Contains(Upper(Desc(i)), "PELVIS"))
                    => df[i]["Body Part"] = "Chest, Abdomen, Pelvis"
            /\ (/\ ~Contains(Upper(Desc(i)), "CHEST")
                /\ Contains(Upper(Desc(i)), "ABDOMEN")
                /\ Contains(Upper(Desc(i)), "PELVIS"))
                    => df[i]["Body Part"] = "Abdomen, Pelvis"

\* C20, witness: the code CTPE, which the entry of the pelvis matches, has
\* the three regions of its description, the chest named last.
CtCombinationFirstWitness ==
    \E i \in Rows :
        /\ UpperCode(i) = "CTPE"
        /\ Desc(i) = "PELVIS ABDOMEN CHEST"
        /\ df[i]["Body Part"] = "Chest, Abdomen, Pelvis"

\* The description t holds a combination of regions that
\* body_parts_from_desc reports before it reads the single regions.
CombinationDetected(t) ==
    \/ Contains(t, "CT") /\ region_ct(t) \in {"Chest/Abdomen/Pelvis", "Abdomen/Pelvis"}
    \/ ThreeRegions(t)
    \/ TwoRegions(t)

\* C21: for a row classified by its description in which no combination
\* of regions is detected, every entry of BODY_PART_PATTERNS whose pattern
\* matches the description has its region in the Body Part of the row, in
\* descriptions that contain CT too.
EveryRegionCollected ==
    \A i \in Rows :
        (/\ isna(Code(i))
         /\ ~CombinationDetected(Upper(Desc(i))))
        => \A k \in 1..Len(BODY_PART_PATTERNS) :
                ReSearch(BODY_PART_PATTERNS[k][2], Upper(Desc(i)))
                    => BODY_PART_PATTERNS[k][1] \in Components(df[i]["Body Part"])

\* The modality m of the description t is not the generic one where t
\* names a specific one.
SpecificModalityKept(t, m) ==
    /\ (\/ HasWords(t, "CTA") \/ HasWords(t, "CTV")
        \/ HasWords(t, "CT ANGIOGRAPHY") \/ HasWords(t, "CT ANGIOGRAM")
        \/ HasWords(t, "CT VENOGRAPHY") \/ HasWords(t, "CT VENOGRAM"))
       => m # "CT"
    /\ (\/ HasWords(t, "MRA") \/ HasWords(t, "MRV")
        \/ AnyIn(<<"ANGIOGRAPHY", "ANGIOGRAM", "VENOGRAPHY", "VENOGRAM">>, t))
       => m # "MRI"
    /\ (HasWords(t, "PET/CT") \/ HasWords(t, "PET CT"))
       => m \notin {"PET", "CT"}

\* C22: a row classified by its description is never CT when the
\* description holds the word CTA or CTV or a phrase of CT angiography or
\* venography, never MRI when it holds the word MRA or MRV or a keyword of
\* angiography or venography, and never PET or CT when it holds the phrase
\* PET/CT or PET CT.
SpecificBeforeGeneric ==
    \A i \in Rows :
        isna(Code(i)) => SpecificModalityKept(Upper(Desc(i)), df[i]["Modality"])

\* A description with the words CT and CTA is classified CTA, one with MRI
\* and MRA is MRA, one with the phrase PET CT is PET/CT.
SpecificBeforeGenericWitness ==
    \E i \in Rows :
        /\ isna(Code(i))
        /\ \/ /\ HasWords(Upper(Desc(i)), "CT") /\ HasWords(Upper(Desc(i)), "CTA")
              /\ df[i]["Modality"] = "CTA"
           \/ /\ HasWords(Upper(Desc(i)), "MRI") /\ HasWords(Upper(Desc(i)), "MRA")
              /\ df[i]["Modality"] = "MRA"
           \/ /\ HasWords(Upper(Desc(i)), "PET CT")
              /\ df[i]["Modality"] = "PET/CT"

\* No entry of DESC_MODALITY_PATTERNS before entry k matches t.
NoEarlierEntry(t, k) ==
    \A j \in 1..(k - 1) : ~ReSearch(DESC_MODALITY_PATTERNS[j][1], t)

\* t holds a keyword of fluoroscopy, mammography or echocardiography
\* (entries 12 to 14 of DESC_MODALITY_PATTERNS).
HasLateKeyword(t) ==
    \E k \in 12..14 : ReSearch(DESC_MODALITY_PATTERNS[k][1], t)

\* C23 as stated: a description classified alone that names a plain body
\* part together with a keyword of fluoroscopy, mammography or
\* echocardiography, and matches no step before the X-ray step, is
\* classified Radiography.
BodyPartBeforeFluoroscopy ==
    \A i \in Rows :
        (/\ isna(Code(i))
         /\ ReSearch(PlainBodyPart, Upper(Desc(i)))
         /\ HasLateKeyword(Upper(Desc(i)))
         /\ NoEarlierEntry(Upper(Desc(i)), 11))
        => df[i]["Modality"] = "Radiography"

\* C23 amended: of the X-ray step only the keyword XR or X-RAY is tried
\* before fluoroscopy, mammography and echocardiography; a description that
\* matches no earlier entry and holds that keyword is Radiography, and one
\* without it that names a plain body part together with a keyword of
\* fluoroscopy, mammography or echocardiography has the modality of the
\* first of these three entries that matches.
BodyPartAfterFluoroscopy ==
    \A i \in Rows :
        isna(Code(i)) =>
            /\ (/\ NoEarlierEntry(Upper(Desc(i)), 11)
                /\ ReSearch(DESC_MODALITY_PATTERNS[11][1], Upper(Desc(i))))
               => df[i]["Modality"] = "Radiography"
            /\ \A k \in 12..14 :
                (/\ ReSearch(PlainBodyPart, Upper(Desc(i)))
                 /\ NoEarlierEntry(Upper(Desc(i)), k)
                 /\ ReSearch(DESC_MODALITY_PATTERNS[k][1], Upper(Desc(i))))
                => df[i]["Modality"] = DESC_MODALITY_PATTERNS[k][2]

\* A description that names the chest and fluoroscopy is classified
\* Fluoroscopy.
BodyPartAfterFluoroscopyWitness ==
    \E i \in Rows :
        /\ isna(Code(i))
        /\ ReSearch(PlainBodyPart, Upper(Desc(i)))
        /\ NoEarlierEntry(Upper(Desc(i)), 12)
        /\ ReSearch(DESC_MODALITY_PATTERNS[12][1], Upper(Desc(i)))
        /\ df[i]["Modality"] = "Fluoroscopy"

\* t holds one of the keywords of an invasive procedure.
HasInvasiveKeyword(t) ==
    \/ AnyIn(<<"BIOPSY", "ASPIRATION", "DRAINAGE", "CATHETERIZATION">>, t)
    \/ ReSearch("STENT\\s+PLACEMENT", t)

\* t holds one of the indicators of nuclear medicine.
HasNmIndicator(t) ==
    AnyIn(<<"SCAN", "INJECTION", "RADIOACTIVE", "RADIONUCLIDE", "NUCLEAR">>, t)

\* One of the steps of modality_from_desc that come before the invasive
\* procedures takes t: an entry of DESC_MODALITY_PATTERNS, one of the three
\* heuristics of nuclear medicine or the name of a plain body part.
EarlierStep(t) ==
    \/ ~NoEarlierEntry(t, Len(DESC_MODALITY_PATTERNS) + 1)
    \/ /\ AnySearch(NM_KEYWORDS, t)
       /\ ~ReSearch("\\b(?:CT|MRI|MR\\s+|US\\s+|ULTRASOUND|XR\\s+|X-RAY)\\s+SCAN", t)
    \/ /\ ReSearch("INJECTION|RADIOACTIVE|RADIONUCLIDE", t)
       /\ ReSearch("SCAN|PROCEDURE|STUDY|IMAGING", t)
       /\ ~ReSearch("\\b(?:CT|MRI|MR\\s+|US\\s+|ULTRASOUND|XR\\s+|X-RAY|BIOPSY|ASPIRATION|DRAINAGE)\\b", t)
    \/ /\ AnySearch(HEAD_NECK_KEYWORDS, t)
       /\ ReSearch("PROCEDURE|SCAN|INJECTION|STUDY|IMAGING|RADIOACTIVE", t)
       /\ ~ReSearch("\\b(?:CT|MRI|MR\\s+|US\\s+|ULTRASOUND|XR\\s+|X-RAY|BIOPSY|ASPIRATION|DRAINAGE|CATHETER|STENT)\\b", t)
    \/ ReSearch(PlainBodyPart, t)

\* C24: a row classified by its description is Invasive only if the
\* description holds a keyword of an invasive procedure, holds no indicator
\* of nuclear medicine and is taken by no earlier step; a description with
\* an indicator of nuclear medicine is never Invasive.
InvasiveLastResort ==
    \A i \in Rows :
        isna(Code(i)) =>
            /\ df[i]["Modality"] = "Invasive" =>
                    /\ HasInvasiveKeyword(Upper(Desc(i)))
                    /\ ~HasNmIndicator(Upper(Desc(i)))
                    /\ ~EarlierStep(Upper(Desc(i)))
            /\ HasNmIndicator(Upper(Desc(i))) => df[i]["Modality"] # "Invasive"

\* A biopsy without further words is classified Invasive.
InvasiveLastResortWitness ==
    \E i \in Rows :
        /\ isna(Code(i))
        /\ HasInvasiveKeyword(Upper(Desc(i)))
        /\ ~HasNmIndicator(Upper(Desc(i)))
        /\ df[i]["Modality"] = "Invasive"

\* The code of row i matches an entry of BODY_PART_CODE_PATTERNS whose
\* region holds the abdomen.
AbdomenCode(i) ==
    /\ has_examcode /\ notna(Code(i))
    /\ \E k \in 1..Len(BODY_PART_CODE_PATTERNS) :
            /\ ReMatch(BODY_PART_CODE_PATTERNS[k][1], UpperCode(i))
            /\ "Abdomen" \in Components(BODY_PART_CODE_PATTERNS[k][2])

\* C25: the Body Part of a row holds Abdomen, alone or in a combination,
\* only if the description holds ABDOMEN, ABDOMINAL or the word AB, or the
\* code matches a rule of the abdomen.
AbdomenOnlyWhenNamed ==
    \A i \in Rows :
        "Abdomen" \in Components(df[i]["Body Part"])
            => \/ Contains(Upper(Desc(i)), "ABDOMEN")
               \/ Contains(Upper(Desc(i)), "ABDOMINAL")
               \/ HasWords(Upper(Desc(i)), "AB")
               \/ AbdomenCode(i)

\* Descriptions put in place of the description of a row.
ProbeDescriptions ==
    {"", "CT CHEST", "MRI BRAIN", "BONE SCAN", "THYROID STUDY", "US RENAL"}

\* C26: the modality of a row classified by its code is the one
\* modality_from_examcode gives the code with any other description; a code
\* that starts with Z and holds no PET is Nuclear Medicine, and a code that
\* no entry of MODALITY_PATTERNS matches is Other.
CodeModalityIgnoresDescription ==
    \A i \in Rows :
        (has_examcode /\ notna(Code(i))) =>
            /\ \A d \in ProbeDescriptions :
                    modality_from_examcode(Code(i), d) = df[i]["Modality"]
            /\ (StartsWith(UpperCode(i), "Z") /\ ~Contains(UpperCode(i), "PET"))
               => df[i]["Modality"] = "Nuclear Medicine"
            /\ (\A k \in 1..Len(MODALITY_PATTERNS) :
                    ~ReMatch(MODALITY_PATTERNS[k][1], UpperCode(i)))
               => df[i]["Modality"] = "Other"

\* A row with a Z code whose description alone is another modality is
\* Nuclear Medicine.
CodeModalityIgnoresDescriptionWitness ==
    \E i \in Rows :
        /\ has_examcode /\ notna(Code(i))
        /\ StartsWith(UpperCode(i), "Z") /\ ~Contains(UpperCode(i), "PET")
        /\ Desc(i) # ""
        /\ modality_from_desc(Desc(i)) \notin {"Nuclear Medicine", "Other"}
        /\ df[i]["Modality"] = "Nuclear Medicine"

\* t holds no keyword of PET or of magnetic resonance.
NoPetOrMr(t) ==
    ~Contains(t, "PET") /\ ~Contains(t, "POSITRON") /\ ~Contains(t, "MR")

\* C27: a row classified by its description that holds the phrase CT
\* ANGIOGRAPHY or CT ANGIOGRAM and no keyword of PET or MR is CTA, and one
\* that holds CT VENOGRAPHY or CT VENOGRAM is CTV.
CtAngiographyPhrase ==
    \A i \in Rows :
        (isna(Code(i)) /\ NoPetOrMr(Upper(Desc(i)))) =>
            /\ (\/ HasWords(Upper(Desc(i)), "CT ANGIOGRAPHY")
                \/ HasWords(Upper(Desc(i)), "CT ANGIOGRAM"))
               => df[i]["Modality"] = "CTA"
            /\ (\/ HasWords(Upper(Desc(i)), "CT VENOGRAPHY")
                \/ HasWords(Upper(Desc(i)), "CT VENOGRAM"))
               => df[i]["Modality"] = "CTV"

\* The region as an exam name shows it.
ShownRegion(body_part) == IF body_part = "Unknown" THEN "Other" ELSE body_part

\* C28: the Exam of every row is its Modality, a blank and its Body Part,
\* with Unknown shown as Other, followed by a contrast phrase or nothing.
EnrichedColumnsAgree ==
    \A i \in Rows :
        \E con \in {"", "w/ Contrast", "w/o Contrast", "w/ and w/o Contrast"} :
            df[i]["Exam"] = df[i]["Modality"] \o " "
                                \o ShownRegion(df[i]["Body Part"])
                                \o ContrastSuffix(con)

-----------------------------------------------------------------------------
(* The dashboard: the filters of the sidebar and their application         *)

\* available_days
available_days ==
    <<"Monday", "Tuesday", "Wednesday", "Thursday", "Friday", "Saturday", "Sunday">>

\* dt.day_name() of the d-th of March 2024, whose 4th was a Monday
day_name(d) == available_days[((d + 3) % 7) + 1]

\* A record of the loaded table: the columns the filters read, the date as
\* the day of March 2024.
Study(d, h, modality, body_part) ==
    ("date" :> d) @@ ("dow" :> day_name(d)) @@ ("hour" :> h)
        @@ ("Modality" :> modality) @@ ("Body Part" :> body_part)

\* The tables loaded: three days with two hours, modalities and body
\* parts, and a table of two equal records.
LoadedTables ==
    { <<Study(4, 8, "CT", "Chest"), Study(5, 14, "MRI", "Lower Extremity"),
        Study(6, 8, "CT", "Lower Extremity")>>,
      <<Study(9, 8, "CT", "Chest"), Study(9, 8, "CT", "Chest")>> }

\* df[column].dropna().unique()
unique(rows, column) == {rows[k][column] : k \in 1..Len(rows)}

\* df["date"].min() and df["date"].max()
min_date(rows) == CHOOSE d \in unique(rows, "date") : \A e \in unique(rows, "date") : d <= e
max_date(rows) == CHOOSE d \in unique(rows, "date") : \A e \in unique(rows, "date") : d >= e

\* The values the date input can return: nothing, one date while a range is
\* being picked, or a range within the dates of the table.
DateRanges(rows) ==
    {<<>>} \cup {<<a>> : a \in min_date(rows)..max_date(rows)}
        \cup {dr \in (min_date(rows)..max_date(rows))
                        \X (min_date(rows)..max_date(rows)) : dr[1] <= dr[2]}

\* The days selected in the multiselect by hand: at most MaxDays of them.
MaxDays == 1
DaySelections == {S \in SUBSET Range(available_days) : Cardinality(S) <= MaxDays}

\* The date filter (lines 815-822).
date_filtered(rows, dr) ==
    IF Len(dr) = 2
    THEN SelectSeq(rows, LAMBDA r : r["date"] >= dr[1] /\ r["date"] <= dr[2])
    ELSE IF Len(dr) = 1 THEN SelectSeq(rows, LAMBDA r : r["date"] = dr[1])
    ELSE rows

\* A filter that keeps the records of the selection, of an empty one too.
filter_every_selection(rows, column, selection) ==
    SelectSeq(rows, LAMBDA r : r[column] \in selection)

\* if selection: df_filtered = df_filtered[df_filtered[column].isin(selection)]
isin_filtered(rows, column, selection) ==
    IF selection # {} THEN SelectSeq(rows, LAMBDA r : r[column] \in selection)
    ELSE rows

\* "Apply filters": the five filters one after the other.
apply_filters(rows, dr, tf, mf, bf, dyf) ==
    isin_filtered(
        isin_filtered(
            isin_filtered(
                isin_filtered(date_filtered(rows, dr), "hour", tf),
                "Modality", mf),
            "Body Part", bf),
        "dow", dyf)

\* The selections a run of the script writes to st.session_state when no
\* key is there yet.
DefaultSelections(rows) ==
    [date_range_selected |-> <<min_date(rows), max_date(rows)>>,
     time_filter_selected |-> unique(rows, "hour"),
     modality_filter_selected |-> unique(rows, "Modality"),
     body_part_filter_selected |-> unique(rows, "Body Part"),
     day_filter_selected |-> unique(rows, "dow")]

\* One run of the script from the filters on, with the values the widgets
\* return and the session state ss the run starts with.
RunScript(ss, dr, tf, mf, bf, dyf) ==
    /\ date_range' = dr
    /\ time_filter' = tf
    /\ modality_filter' = mf
    /\ body_part_filter' = bf
    /\ day_filter' = dyf
    /\ session_state' =
            [date_range_selected |->
                IF Len(dr) = 2 THEN dr
                ELSE IF Len(dr) = 1 THEN <<dr[1], dr[1]>>
                ELSE ss.date_range_selected,
             time_filter_selected |-> tf,
             modality_filter_selected |-> mf,
             body_part_filter_selected |-> bf,
             day_filter_selected |-> dyf]
    /\ df_filtered' = apply_filters(processed_df, dr, tf, mf, bf, dyf)
    /\ stopped' = (apply_filters(processed_df, dr, tf, mf, bf, dyf) = <<>>)
    /\ UNCHANGED <<processed_df, tables, frame, disk>>

\* A run in which no widget was touched: a widget whose default differs
\* from its value is built anew with the default or keeps the value held
\* under its key, as the version of Streamlit has it.
Rerun(ss) ==
    \E dr \in {date_range, ss.date_range_selected},
       tf \in {time_filter, ss.time_filter_selected},
       mf \in {modality_filter, ss.modality_filter_selected},
       bf \in {body_part_filter, ss.body_part_filter_selected},
       dyf \in {day_filter, ss.day_filter_selected} :
        RunScript(ss, dr, tf, mf, bf, dyf)

\* The user picks dates in the date input.
SetDateRange ==
    \E dr \in DateRanges(processed_df) :
        /\ dr # date_range
        /\ RunScript(session_state, dr, time_filter, modality_filter,
                     body_part_filter, day_filter)

\* The user changes the selection of one multiselect.
SetTimeFilter ==
    \E tf \in SUBSET unique(processed_df, "hour"),
       dr \in {date_range, session_state.date_range_selected} :
        /\ tf # time_filter
        /\ RunScript(session_state, dr, tf, modality_filter,
                     body_part_filter, day_filter)

SetModalityFilter ==
    \E mf \in SUBSET unique(processed_df, "Modality"),
       dr \in {date_range, session_state.date_range_selected} :
        /\ mf # modality_filter
        /\ RunScript(session_state, dr, time_filter, mf,
                     body_part_filter, day_filter)

SetBodyPartFilter ==
    \E bf \in SUBSET unique(processed_df, "Body Part"),
       dr \in {date_range, session_state.date_range_selected} :
        /\ bf # body_part_filter
        /\ RunScript(session_state, dr, time_filter, modality_filter,
                     bf, day_filter)

SetDayFilter ==
    \E dyf \in DaySelections,
       dr \in {date_range, session_state.date_range_selected} :
        /\ dyf # day_filter
        /\ RunScript(session_state, dr, time_filter, modality_filter,
                     body_part_filter, dyf)

\* The button "Select All Dates".
SelectAllDates ==
    Rerun([session_state EXCEPT
            !.date_range_selected = <<min_date(processed_df), max_date(processed_df)>>])

\* The buttons "Select All" of the four multiselects; that of the days
\* selects every day of the week.
SelectAll ==
    \/ Rerun([session_state EXCEPT
                !.time_filter_selected = unique(processed_df, "hour")])
    \/ Rerun([session_state EXCEPT
                !.modality_filter_selected = unique(processed_df, "Modality")])
    \/ Rerun([session_state EXCEPT
                !.body_part_filter_selected = unique(processed_df, "Body Part")])
    \/ Rerun([session_state EXCEPT
                !.day_filter_selected = Range(available_days)])

\* The buttons "Clear" of the four multiselects.
Clear ==
    \E key \in {"time_filter_selected", "modality_filter_selected",
                "body_part_filter_selected", "day_filter_selected"} :
        Rerun([session_state EXCEPT ![key] = {}])

\* The button "Reset All Filters", shown while the filters hide records:
\* the keys are deleted and the next run writes the defaults.
ResetAllFilters ==
    /\ Len(df_filtered) # Len(processed_df)
    /\ Rerun(DefaultSelections(processed_df))

\* The first run after a table was loaded.
FilterInit ==
    /\ InitTables
    /\ NoFrame
    /\ NoDirectory
    /\ processed_df \in LoadedTables
    /\ date_range = DefaultSelections(processed_df).date_range_selected
    /\ time_filter = DefaultSelections(processed_df).time_filter_selected
    /\ modality_filter = DefaultSelections(processed_df).modality_filter_selected
    /\ body_part_filter = DefaultSelections(processed_df).body_part_filter_selected
    /\ day_filter = DefaultSelections(processed_df).day_filter_selected
    /\ session_state = DefaultSelections(processed_df)
    /\ df_filtered = processed_df
    /\ stopped = FALSE

FilterNext ==
    \/ SetDateRange \/ SetTimeFilter \/ SetModalityFilter \/ SetBodyPartFilter
    \/ SetDayFilter \/ SelectAllDates \/ SelectAll \/ Clear \/ ResetAllFilters

FilterSpec == FilterInit /\ [][FilterNext]_vars

\* The record r lies in the dates selected: between the two dates of a
\* range, on the one date picked, anywhere when no date is picked.
InDateRange(r) ==
    /\ Len(date_range) = 2 => r["date"] >= date_range[1] /\ r["date"] <= date_range[2]
    /\ Len(date_range) = 1 => r["date"] = date_range[1]

\* The record r satisfies every selection that is not empty.
Selected(r) ==
    /\ time_filter # {} => r["hour"] \in time_filter
    /\ modality_filter # {} => r["Modality"] \in modality_filter
    /\ body_part_filter # {} => r["Body Part"] \in body_part_filter
    /\ day_filter # {} => r["dow"] \in day_filter

\* C29: after any selections the filtered table holds records of the
\* loaded table only, and exactly those, in their order, that lie in the
\* dates selected and satisfy every selection of hours, modalities, body
\* parts and days that is not empty.
FilterApplication ==
    /\ Range(df_filtered) \subseteq Range(processed_df)
    /\ df_filtered = SelectSeq(processed_df, LAMBDA r : InDateRange(r) /\ Selected(r))

\* No hour is selected, the selection of modalities hides a record, and
\* the filtered table holds the others.
FilterApplicationWitness ==
    /\ time_filter = {}
    /\ modality_filter = {"CT"}
    /\ df_filtered # <<>>
    /\ Len(df_filtered) < Len(processed_df)

-----------------------------------------------------------------------------
(* combine_excel_files: the files of the data directory put into one       *)

\* Path(output_file).name of the default output_file
output_filename == "database.xlsx"

\* The sheet of a file that cannot be read as a workbook.
Corrupt == <<"corrupt">>

\* A report: eight rows above the row of the column names, then the data.
Report(header, rows) == [k \in 1..8 |-> <<Text("Report"), NaN>>] \o <<header>> \o rows

\* The sheets of the reports: with the expected column names, with other
\* names and with a column without a name; rows with both cells, with the
\* timestamp only, and empty rows.
MaxFileRows == 2
ReportSheets ==
    {Report(header, rows) :
        header \in { <<Text("DICTATION DTTM"), Text("EXAM DESC")>>,
                     <<Text("Date"), Text("Exam")>>,
                     <<Text("DICTATION DTTM"), NaN>> },
        rows \in SeqsUpTo({ <<Text("2024-03-05 08:30"), Text("CT CHEST")>>,
                            <<Text("2024-03-04 09:00"), NaN>>,
                            <<NaN, NaN>> }, MaxFileRows)}

\* A sheet as an earlier run wrote it: the column names, then n rows.
Written(n) ==
    <<<<Text("Date"), Text("Exam")>>>> \o [k \in 1..n |-> <<Text("3/5"), Text("KNEE")>>]

\* The data directories: a report that varies, a second report, an output
\* of an earlier run and a file of another kind, each there or not (a name
\* without a file has the sheet <<>>).
Directories ==
    {[n \in {"a.xlsx", "b.xlsx", "database.xlsx", "notes.csv"} |->
        IF n = "a.xlsx" THEN a
        ELSE IF n = "b.xlsx" THEN b
        ELSE IF n = "database.xlsx" THEN o
        ELSE c] :
        a \in ReportSheets \cup {Corrupt, <<>>},
        b \in {<<>>, Corrupt,
               Report(<<Text("DICTATION DTTM"), Text("EXAM DESC")>>,
                      << <<Text("2024-03-04 10:15"), Text("KNEE")>> >>)},
        o \in {<<>>, Written(2), Written(10)},
        c \in {<<>>, Written(2)}}

\* The names of a directory in sorted order.
SortedNames == <<"a.xlsx", "b.xlsx", "database.xlsx", "notes.csv">>

\* Every workbook of the directory, the output of an earlier run too.
all_excel_files(d, output) ==
    SelectSeq(SortedNames, LAMBDA n : d[n] # <<>> /\ EndsWith(n, ".xlsx"))

\* sorted([f for f in data_path.glob('*.xlsx') if f.name != output_filename])
excel_files(d, output) ==
    SelectSeq(SortedNames,
              LAMBDA n : d[n] # <<>> /\ EndsWith(n, ".xlsx") /\ n # output)

\* str() of a number below 100 in two digits
TwoDigits(n) ==
    SubSeq("0123456789", (n \div 10) + 1, (n \div 10) + 1)
        \o SubSeq("0123456789", (n % 10) + 1, (n % 10) + 1)

\* str() of a cell that is not empty: the text, or the timestamp as
\* "YYYY-MM-DD HH:MM:00"
cell_str(c) ==
    IF "s" \in DOMAIN c THEN c.s
    ELSE TwoDigits(c.ymdhm[1] \div 100) \o TwoDigits(c.ymdhm[1] % 100)
            \o "-" \o TwoDigits(c.ymdhm[2]) \o "-" \o TwoDigits(c.ymdhm[3])
            \o " " \o TwoDigits(c.ymdhm[4]) \o ":" \o TwoDigits(c.ymdhm[5]) \o ":00"

\* The column names pandas gives the header row: the cells as text, and
\* "Unnamed: k" for the empty cell of column k.
column_names(header) ==
    [k \in 1..Len(header) |->
        IF isna(header[k]) THEN "Unnamed: " \o SubSeq("0123456789", k, k)
        ELSE cell_str(header[k])]

\* pd.read_excel(excel_file, header=8): the ninth row names the columns and
\* the rows below it are the data; a file that cannot be read, or that has
\* no ninth row, gives no data (an exception, or a frame without rows).
read_excel(sheet) ==
    IF sheet = Corrupt \/ Len(sheet) < 9 THEN [columns |-> <<>>, rows |-> <<>>]
    ELSE [columns |-> column_names(sheet[9]),
          rows |-> [k \in 1..(Len(sheet) - 9) |->
                        [c \in Range(column_names(sheet[9])) |->
                            sheet[9 + k][CHOOSE j \in 1..Len(sheet[9]) :
                                            column_names(sheet[9])[j] = c]]]]

\* df.loc[:, ~df.columns.str.contains('^Unnamed')]
drop_unnamed(f) ==
    [columns |-> SelectSeq(f.columns, LAMBDA c : ~StartsWith(c, "Unnamed")),
     rows |-> [k \in 1..Len(f.rows) |->
                [c \in {c \in DOMAIN f.rows[k] : ~StartsWith(c, "Unnamed")} |->
                    f.rows[k][c]]]]

\* df.dropna(subset=subset, how='all')
dropna_all(f, subset) ==
    [f EXCEPT !.rows = SelectSeq(@, LAMBDA r : \E c \in subset : ~isna(r[c]))]

\* The cleaning of one frame (lines 39-51).
cleaned(f) ==
    IF {"DICTATION DTTM", "EXAM DESC"} \subseteq Range(drop_unnamed(f).columns)
    THEN dropna_all(drop_unnamed(f), {"DICTATION DTTM", "EXAM DESC"})
    ELSE dropna_all(drop_unnamed(f), Range(drop_unnamed(f).columns))

\* df.empty
empty(f) == f.columns = <<>> \/ f.rows = <<>>

\* all_dataframes after the loop over the files.
RECURSIVE all_dataframes(_, _)
all_dataframes(d, names) ==
    IF names = <<>> THEN <<>>
    ELSE (IF empty(cleaned(read_excel(d[Head(names)]))) THEN <<>>
          ELSE <<cleaned(read_excel(d[Head(names)]))>>)
            \o all_dataframes(d, Tail(names))

\* The columns of pd.concat(frames): those of the first frame, then the
\* new ones of each further frame.
RECURSIVE concat_columns(_, _)
concat_columns(frames, cols) ==
    IF frames = <<>> THEN cols
    ELSE concat_columns(Tail(frames),
            cols \o SelectSeq(Head(frames).columns, LAMBDA c : c \notin Range(cols)))

\* The rows of pd.concat(frames, ignore_index=True) under the columns cols:
\* the cells a frame lacks are empty.
RECURSIVE concat_rows(_, _)
concat_rows(frames, cols) ==
    IF frames = <<>> THEN <<>>
    ELSE [k \in 1..Len(Head(frames).rows) |->
            [c \in Range(cols) |->
                IF c \in DOMAIN Head(frames).rows[k]
                THEN Head(frames).rows[k][c] ELSE NaN]]
            \o concat_rows(Tail(frames), cols)

\* Timestamp a is before timestamp b, neither of them NaT.
RECURSIVE stamp_before(_, _, _)
stamp_before(a, b, k) ==
    IF k > 5 THEN FALSE
    ELSE IF a.ymdhm[k] # b.ymdhm[k] THEN a.ymdhm[k] < b.ymdhm[k]
    ELSE stamp_before(a, b, k + 1)

\* row put in its place among rows that are sorted by the timestamp, NaT
\* last, behind the rows of the same timestamp.
RECURSIVE insert_sorted(_, _)
insert_sorted(row, rows) ==
    IF rows = <<>> THEN <<row>>
    ELSE IF /\ ~isna(row["DICTATION DTTM"])
            /\ \/ isna(Head(rows)["DICTATION DTTM"])
               \/ stamp_before(row["DICTATION DTTM"], Head(rows)["DICTATION DTTM"], 1)
         THEN <<row>> \o rows
    ELSE <<Head(rows)>> \o insert_sorted(row, Tail(rows))

\* sort_values('DICTATION DTTM', na_position='last') of the few rows of the
\* modelled files, which keeps the order of equal timestamps.
RECURSIVE sort_values(_)
sort_values(rows) ==
    IF rows = <<>> THEN <<>>
    ELSE insert_sorted(rows[Len(rows)], sort_values(SubSeq(rows, 1, Len(rows) - 1)))

\* The combined frame (lines 69-86): the frames put together, the empty
\* rows dropped, the timestamps converted and the rows sorted by them.
combined(frames) ==
    IF "DICTATION DTTM" \in Range(concat_columns(frames, <<>>))
    THEN [columns |-> concat_columns(frames, <<>>),
          rows |-> sort_values(
                    [k \in 1..Len(concat_rows(frames, concat_columns(frames, <<>>))) |->
                        [concat_rows(frames, concat_columns(frames, <<>>))[k]
                            EXCEPT !["DICTATION DTTM"] = to_datetime(@)]])]
    ELSE [columns |-> concat_columns(frames, <<>>),
          rows |-> concat_rows(frames, concat_columns(frames, <<>>))]

\* combined_df.to_excel(output_path, index=False): the column names, then
\* the rows; NaT is written as an empty cell.
to_excel(f) ==
    <<[k \in 1..Len(f.columns) |-> Text(f.columns[k])]>>
        \o [r \in 1..Len(f.rows) |->
                [k \in 1..Len(f.columns) |->
                    IF isna(f.rows[r][f.columns[k]]) THEN NaN
                    ELSE f.rows[r][f.columns[k]]]]

\* One call of combine_excel_files() with its default arguments.
Combine ==
    /\ IF excel_files(data_dir, output_filename) = <<>>
       THEN /\ message' = "No Excel files found"
            /\ data_dir' = data_dir
       ELSE IF all_dataframes(data_dir, excel_files(data_dir, output_filename)) = <<>>
       THEN /\ message' = "No data to combine!"
            /\ data_dir' = data_dir
       ELSE /\ message' = "Successfully created database file!"
            /\ data_dir' =
                [data_dir EXCEPT ![output_filename] =
                    to_excel(combined(all_dataframes(data_dir,
                                excel_files(data_dir, output_filename))))]
    /\ UNCHANGED <<tables, frame, filters>>

CombineInit ==
    /\ InitTables
    /\ NoFrame
    /\ NoDashboard
    /\ data_dir \in Directories
    /\ message = ""

CombineNext == Combine

CombineSpec == CombineInit /\ [][CombineNext]_vars

\* The workbooks of the directory other than the output.
InputNames ==
    {n \in DOMAIN data_dir :
        data_dir[n] # <<>> /\ EndsWith(n, ".xlsx") /\ n # "database.xlsx"}

\* C30: a call of combine_excel_files on a directory whose output the call
\* before wrote leaves the directory as it is, the output with the same
\* rows; and a call on a directory without an input workbook, or whose
\* inputs yield no row, leaves the directory as it is, the output of an
\* earlier run too.
NeverReadsOwnOutput ==
    [][/\ message = "Successfully created database file!" => data_dir' = data_dir
       /\ (\/ InputNames = {}
           \/ \A n \in InputNames : empty(cleaned(read_excel(data_dir[n]))))
          => data_dir' = data_dir]_vars

\* A call wrote the three rows of two inputs to the output.
NeverReadsOwnOutputWitness ==
    /\ message = "Successfully created database file!"
    /\ InputNames = {"a.xlsx", "b.xlsx"}
    /\ Len(data_dir["database.xlsx"]) = 4

=============================================================================
